---- MODULE Spec2Model ----
(***************************************************************************)
(* Model of the PPTX media pipeline: src/img_ppt.py (extraction),          *)
(* src/descpgen.py (extraction with descriptions and the tabular file) and *)
(* src/main.py (storage keys, organizing, checkpointing, directory walk).  *)
(*                                                                         *)
(* Strings (paths, file names, storage keys) are sequences of characters.  *)
(* A character of the model is either a separator ("/", "\\", ".") or an   *)
(* atom that stands for a run of characters holding no separator ("ppt",   *)
(* "media", "a", "png", "slide2_").  os.path is posixpath.                 *)
(***************************************************************************)
EXTENDS Integers, Sequences, FiniteSets, TLC

None == "None"

(***************************************************************************)
(* String helpers (Python str methods).                                    *)
(***************************************************************************)
Max(S) == CHOOSE x \in S : \A y \in S : y <= x

\* s.rfind(c) + 1: the 1-based index of the last c in s, 0 when there is none
rfind(s, c) == Max({0} \cup {i \in 1..Len(s) : s[i] = c})

\* s.find(sub) + 1: the 1-based index of the first occurrence of sub, 0 if none
find(s, sub) ==
    LET hits == {i \in 1..(Len(s) - Len(sub) + 1) : SubSeq(s, i, i + Len(sub) - 1) = sub}
    IN  IF hits = {} THEN 0 ELSE CHOOSE i \in hits : \A j \in hits : i <= j

startswith(s, p) == Len(s) >= Len(p) /\ SubSeq(s, 1, Len(p)) = p

endswith(s, p) == Len(s) >= Len(p) /\ SubSeq(s, Len(s) - Len(p) + 1, Len(s)) = p

\* s.rstrip(c)
rstrip(s, c) == SubSeq(s, 1, Max({0} \cup {i \in 1..Len(s) : s[i] # c}))

\* s.replace(old, new) for a single character old
replace_char(s, old, new) == [i \in 1..Len(s) |-> IF s[i] = old THEN new ELSE s[i]]

\* s.replace('//', '/'): one left-to-right pass over non-overlapping occurrences
RECURSIVE replace_double_slash(_)
replace_double_slash(s) ==
    IF Len(s) < 2 THEN s
    ELSE IF s[1] = "/" /\ s[2] = "/"
         THEN <<"/">> \o replace_double_slash(SubSeq(s, 3, Len(s)))
         ELSE <<s[1]>> \o replace_double_slash(Tail(s))

\* s.replace(old, "", 1): the first occurrence of old removed
replace_first(s, old) ==
    LET i == find(s, old)
    IN  IF i = 0 THEN s ELSE SubSeq(s, 1, i - 1) \o SubSeq(s, i + Len(old), Len(s))

\* s.lower() on the atoms that have an upper-case form in the model
lower_char(c) ==
    CASE c = "PPTX" -> "pptx"
      [] c = "GIF"  -> "gif"
      [] c = "PNG"  -> "png"
      [] OTHER      -> c

lower(s) == [i \in 1..Len(s) |-> lower_char(s[i])]

(***************************************************************************)
(* os.path (posixpath).                                                    *)
(***************************************************************************)
dirname(p) ==
    LET head == SubSeq(p, 1, rfind(p, "/"))
    IN  IF head # <<>> /\ (\E k \in 1..Len(head) : head[k] # "/")
        THEN rstrip(head, "/")
        ELSE head

basename(p) == SubSeq(p, rfind(p, "/") + 1, Len(p))

\* os.path.splitext: <<root, ext>>; leading dots of the last component are
\* not an extension
splitext(p) ==
    LET sepIndex == rfind(p, "/")
        dotIndex == rfind(p, ".")
    IN  IF dotIndex > sepIndex
           /\ (\E k \in (sepIndex + 1)..(dotIndex - 1) : p[k] # ".")
        THEN <<SubSeq(p, 1, dotIndex - 1), SubSeq(p, dotIndex, Len(p))>>
        ELSE <<p, <<>> >>

(***************************************************************************)
(* main.py: storage keys.                                                  *)
(***************************************************************************)
make_s3_key(ppt_relative_path, filename, media_type) ==
    LET normalized_ppt_rel_path == replace_char(ppt_relative_path, "\\", "/")
        ppt_dir        == dirname(normalized_ppt_rel_path)
        ppt_name_ext   == basename(normalized_ppt_rel_path)
        ppt_name       == splitext(ppt_name_ext)[1]
        clean_filename == basename(filename)
        key == IF ppt_dir # <<>>
               THEN <<"PPT", "/">> \o ppt_dir \o <<"/">> \o ppt_name \o <<"/">>
                        \o <<media_type, "/">> \o clean_filename
               ELSE <<"PPT", "/">> \o ppt_name \o <<"/">>
                        \o <<media_type, "/">> \o clean_filename
    IN  replace_double_slash(key)

(***************************************************************************)
(* Archives.  An archive is [valid, namelist]: valid says whether the file *)
(* is a zip container, namelist is the entry enumeration order.  An entry  *)
(* is [name, xml, rels, payload]: xml and rels describe a relationship     *)
(* descriptor ("ok" | "malformed" | "unreadable", and its Relationship     *)
(* elements [Type, Target]); payload describes a media entry's bytes       *)
(* ("ok": decodable, "empty": zero bytes, "corrupt": bytes no decoder      *)
(* accepts, "unreadable": reading the entry raises).                       *)
(***************************************************************************)
MEDIA_PREFIX == <<"ppt", "/", "media", "/">>

RELS_PREFIX == <<"ppt", "/", "slides", "/", "_rels", "/", "slide">>

RELS_SUFFIX == <<".", "xml", ".", "rels">>

GIF_EXT == <<".", "gif">>

PNG_EXT == <<".", "png">>

supported_input_formats ==
    { <<".", "png">>, <<".", "jpg">>, <<".", "jpeg">>, <<".", "bmp">>,
      <<".", "tiff">>, <<".", "tif">>, <<".", "webp">> }

\* the atoms \d+ matches
Digits == {"1", "2", "01"}

\* int(match.group(1)), held in decimal form: leading zeros are dropped
int_of(d) == IF d = "01" THEN "1" ELSE d

\* slide_num_pattern.search(os.path.basename(rel_file)): the slide number,
\* or None when the pattern does not match
slide_number_of(rel_file) ==
    LET b    == basename(rel_file)
        hits == {i \in 1..(Len(b) - 5) :
                    /\ b[i] = "slide"
                    /\ b[i + 1] \in Digits
                    /\ SubSeq(b, i + 2, i + 5) = RELS_SUFFIX}
    IN  IF hits = {} THEN None
        ELSE int_of(b[(CHOOSE i \in hits : \A j \in hits : i <= j) + 1])

\* rel_files: the entries of namelist that are slide relationship files
rel_files_of(namelist) ==
    SelectSeq(namelist, LAMBDA e : startswith(e.name, RELS_PREFIX)
                                   /\ endswith(e.name, RELS_SUFFIX))

\* the lookup finds no mapping, whatever the map holds
map_get_missing(map, file) == None

\* image_to_slide_map.get(file)
map_get(map, file) == IF file \in DOMAIN map THEN map[file] ELSE None

\* a later descriptor overwrites the mapping of an earlier one
RECURSIVE add_relationships_overwrite(_, _, _)
add_relationships_overwrite(rels, slide_number, map) ==
    IF rels = <<>> THEN map
    ELSE LET relationship    == Head(rels)
             full_media_path == MEDIA_PREFIX \o basename(relationship.Target)
             keep            == [k \in DOMAIN map \ {full_media_path} |-> map[k]]
         IN  add_relationships_overwrite(
                 Tail(rels), slide_number,
                 IF relationship.Type = "image" /\ relationship.Target # <<>>
                 THEN keep @@ (full_media_path :> slide_number)
                 ELSE map)

\* the loop over root.findall('rel:Relationship') of one descriptor
RECURSIVE add_relationships(_, _, _)
add_relationships(rels, slide_number, map) ==
    IF rels = <<>> THEN map
    ELSE LET relationship    == Head(rels)
             full_media_path == MEDIA_PREFIX \o basename(relationship.Target)
         IN  add_relationships(
                 Tail(rels), slide_number,
                 IF /\ relationship.Type = "image"
                    /\ relationship.Target # <<>>
                    /\ full_media_path \notin DOMAIN map
                 THEN map @@ (full_media_path :> slide_number)
                 ELSE map)

\* a descriptor whose XML does not parse ends the loop over rel_files
RECURSIVE build_image_to_slide_map_abort(_, _)
build_image_to_slide_map_abort(rel_files, map) ==
    IF rel_files = <<>> THEN map
    ELSE LET rel_file     == Head(rel_files)
             slide_number == slide_number_of(rel_file.name)
         IN  IF slide_number # None /\ rel_file.xml # "ok" THEN map
             ELSE build_image_to_slide_map_abort(
                      Tail(rel_files),
                      IF slide_number = None
                      THEN map
                      ELSE add_relationships(rel_file.rels, slide_number, map))

\* Step 1: the loop over rel_files; a descriptor whose name does not match,
\* whose XML does not parse or whose read raises contributes nothing
RECURSIVE build_image_to_slide_map(_, _)
build_image_to_slide_map(rel_files, map) ==
    IF rel_files = <<>> THEN map
    ELSE LET rel_file     == Head(rel_files)
             slide_number == slide_number_of(rel_file.name)
         IN  build_image_to_slide_map(
                 Tail(rel_files),
                 IF slide_number = None \/ rel_file.xml # "ok"
                 THEN map
                 ELSE add_relationships(rel_file.rels, slide_number, map))

EmptyMap == [k \in {} |-> None]

slide_prefix_of(slide_num) ==
    IF slide_num # None THEN "slide" \o slide_num \o "_" ELSE "slideUNK_"

is_whitelisted(original_ext_lower) ==
    original_ext_lower = GIF_EXT \/ original_ext_lower \in supported_input_formats

(***************************************************************************)
(* img_ppt.py: extract_images_from_ppt.                                    *)
(***************************************************************************)
\* the state of the extraction loop: the files of the output folder and
\* the two counters
ImgAcc(files, extracted_count, skipped_count) ==
    [files |-> files, extracted_count |-> extracted_count,
     skipped_count |-> skipped_count]

\* an empty payload is passed over without being counted as skipped
img_extract_entry_empty_uncounted(e, map, acc) ==
    LET file               == e.name
        original_filename  == basename(file)
        base_name          == splitext(original_filename)[1]
        original_ext_lower == lower(splitext(original_filename)[2])
        slide_prefix       == slide_prefix_of(map_get(map, file))
        skipped == ImgAcc(acc.files, acc.extracted_count, acc.skipped_count + 1)
    IN  IF is_whitelisted(original_ext_lower)
        THEN IF e.payload = "unreadable" THEN skipped
             ELSE IF e.payload = "empty" THEN acc
             ELSE IF original_ext_lower = GIF_EXT
                  THEN ImgAcc(acc.files \cup {<<slide_prefix>> \o original_filename},
                              acc.extracted_count + 1, acc.skipped_count)
             ELSE IF e.payload = "corrupt" THEN skipped
             ELSE ImgAcc(acc.files \cup {<<slide_prefix>> \o base_name \o PNG_EXT},
                         acc.extracted_count + 1, acc.skipped_count)
        ELSE skipped

\* one iteration of the Step 2 loop, for an entry under ppt/media/
img_extract_entry(e, map, acc) ==
    LET file               == e.name
        original_filename  == basename(file)
        base_name          == splitext(original_filename)[1]
        original_ext_lower == lower(splitext(original_filename)[2])
        slide_prefix       == slide_prefix_of(map_get(map, file))
        skipped == ImgAcc(acc.files, acc.extracted_count, acc.skipped_count + 1)
    IN  IF is_whitelisted(original_ext_lower)
        THEN IF e.payload = "unreadable" THEN skipped
             ELSE IF e.payload = "empty" THEN skipped
             ELSE IF original_ext_lower = GIF_EXT
                  THEN ImgAcc(acc.files \cup {<<slide_prefix>> \o original_filename},
                              acc.extracted_count + 1, acc.skipped_count)
             ELSE IF e.payload = "corrupt" THEN skipped
             ELSE ImgAcc(acc.files \cup {<<slide_prefix>> \o base_name \o PNG_EXT},
                         acc.extracted_count + 1, acc.skipped_count)
        ELSE skipped

RECURSIVE img_extract_loop(_, _, _)
img_extract_loop(namelist, map, acc) ==
    IF namelist = <<>> THEN acc
    ELSE img_extract_loop(
             Tail(namelist), map,
             IF startswith(Head(namelist).name, MEDIA_PREFIX)
             THEN img_extract_entry(Head(namelist), map, acc)
             ELSE acc)

PPTX_SUFFIX == <<".", "pptx">>

\* src is [path, exists, archive]; folder is the set of files the output
\* folder holds before the call.  The result says how the call ended
\* (raised: None for a normal return), what it printed in its outer
\* handlers (error) and what it left in the output folder.
img_extract_images_from_ppt(pil_installed, src, folder) ==
    LET result(raised, error, acc, map) ==
            [raised |-> raised, error |-> error, files |-> acc.files,
             extracted_count |-> acc.extracted_count,
             skipped_count |-> acc.skipped_count, map |-> map]
        start == ImgAcc(folder, 0, 0)
        map   == build_image_to_slide_map(rel_files_of(src.archive.namelist), EmptyMap)
    IN  IF ~pil_installed THEN result("ImportError", None, start, EmptyMap)
        ELSE IF ~endswith(lower(src.path), PPTX_SUFFIX)
             THEN result("ValueError", None, start, EmptyMap)
        ELSE IF ~src.exists THEN result("FileNotFoundError", None, start, EmptyMap)
        ELSE IF ~src.archive.valid THEN result(None, "BadZipFile", start, EmptyMap)
        ELSE result(None, None, img_extract_loop(src.archive.namelist, map, start), map)

(***************************************************************************)
(* descpgen.py: the description boundaries.  The external API's behaviour  *)
(* for one image is [load, resps]: load says whether the saved image       *)
(* passes Image.open/verify, resps are the API's answers to consecutive    *)
(* calls ("text": a usable answer, "empty": an empty or blank answer,      *)
(* "noformat": a response without choices, "raise": the call raises).      *)
(***************************************************************************)
max_retries == 2

\* a string-valued None; the code tests such values by truth value only,
\* which the empty string shares
NoText == <<>>

DESCRIPTION == <<"a description">>

\* the loop gives up after the first empty or invalid response
RECURSIVE safe_llm_call_from_no_retry(_, _)
safe_llm_call_from_no_retry(attempt, resps) ==
    IF attempt >= max_retries
    THEN <<NoText, <<"Error: Max retries reached for LLM call.">>, attempt>>
    ELSE LET response == resps[attempt + 1]
         IN  IF response = "text" THEN <<DESCRIPTION, NoText, attempt + 1>>
             ELSE IF response = "raise"
                  THEN IF attempt < max_retries - 1
                       THEN safe_llm_call_from_no_retry(attempt + 1, resps)
                       ELSE <<NoText, <<"Error during LLM API call">>, attempt + 1>>
             ELSE <<NoText, <<"Error: Received empty/invalid response.">>, attempt + 1>>

\* the for loop of safe_llm_call from the given attempt on:
\* <<text, error, n>>, the returned pair and the number n of
\* generate_content calls made up to the return
RECURSIVE safe_llm_call_from(_, _)
safe_llm_call_from(attempt, resps) ==
    IF attempt >= max_retries
    THEN <<NoText, <<"Error: Max retries reached for LLM call.">>, attempt>>
    ELSE LET response == resps[attempt + 1]
         IN  IF response = "text" THEN <<DESCRIPTION, NoText, attempt + 1>>
             ELSE IF response = "raise"
                  THEN IF attempt < max_retries - 1
                       THEN safe_llm_call_from(attempt + 1, resps)
                       ELSE <<NoText, <<"Error during LLM API call">>, attempt + 1>>
             ELSE IF attempt < max_retries - 1
                  THEN safe_llm_call_from(attempt + 1, resps)
                  ELSE <<NoText, <<"Error: Received empty/invalid response.">>,
                         attempt + 1>>

safe_llm_call(resps) == safe_llm_call_from(0, resps)

\* one request, no retry; every failure comes back as a string
generate_description_gpt4o(boundary) ==
    LET response == boundary.resps[1]
    IN  CASE response = "text"     -> DESCRIPTION
          [] response = "empty"    -> <<"No description available">>
          [] response = "noformat" -> <<"Error: Unexpected response format">>
          [] OTHER                 -> <<"Error during API call">>

\* the requests generate_description_gpt4o sends: the single
\* chat.completions.create of its body
gpt4o_api_calls(boundary) == Len(SubSeq(boundary.resps, 1, 1))

\* <<description, error>>
generate_description_gemini(boundary) ==
    IF ~boundary.load
    THEN <<NoText, <<"Error: Cannot load or invalid image file">> >>
    ELSE SubSeq(safe_llm_call(boundary.resps), 1, 2)

\* the requests generate_description_gemini sends
gemini_api_calls(boundary) ==
    IF ~boundary.load THEN 0 ELSE safe_llm_call(boundary.resps)[3]

\* the image handles of a call of generate_description_gemini:
\* [opened, closed].  boundary.opened says whether the first Image.open
\* succeeded when the load fails (the failure is then img.verify()'s)
gemini_image_handles(boundary) ==
    IF boundary.load
    THEN \* open, verify, close, open again, safe_llm_call, close
         [opened |-> 2, closed |-> 2]
    ELSE IF boundary.opened
         THEN \* open, verify raises, return from the inner handler
              [opened |-> 1, closed |-> 0]
         ELSE \* open raises
              [opened |-> 0, closed |-> 0]

(***************************************************************************)
(* descpgen.py: extract_images_from_ppt (extraction, descriptions and the  *)
(* tabular file descriptions.csv).  A tabular file is [fieldnames, rows],  *)
(* a row a function from field names to strings.                           *)
(***************************************************************************)
NoFile == [exists |-> FALSE, fieldnames |-> <<>>, rows |-> <<>>]

CSV_HEADER == <<"Page_of_PPT", "image_filename", "ppt_name", "description">>

DescAcc(files, extracted_count, skipped_count, csv_rows) ==
    [files |-> files, extracted_count |-> extracted_count,
     skipped_count |-> skipped_count, csv_rows |-> csv_rows]

\* a still image whose conversion fails is treated as converted: it is
\* counted as extracted and gets its row
desc_extract_entry_no_continue(e, boundary, map, ppt_name, acc) ==
    LET file               == e.name
        original_filename  == basename(file)
        base_name          == splitext(original_filename)[1]
        original_ext_lower == lower(splitext(original_filename)[2])
        slide_num          == map_get(map, file)
        slide_prefix       == slide_prefix_of(slide_num)
        page_of_ppt        == IF slide_num # None THEN <<slide_num>> ELSE <<"UNK">>
        skipped == DescAcc(acc.files, acc.extracted_count, acc.skipped_count + 1,
                           acc.csv_rows)
        extracted(output_filename, description) ==
            DescAcc(acc.files \cup {output_filename}, acc.extracted_count + 1,
                    acc.skipped_count,
                    Append(acc.csv_rows,
                           [Page_of_PPT |-> page_of_ppt,
                            image_filename |-> output_filename,
                            ppt_name |-> ppt_name,
                            description |-> description]))
        gemini == generate_description_gemini(boundary)
    IN  IF is_whitelisted(original_ext_lower)
        THEN IF e.payload = "unreadable" THEN skipped
             ELSE IF e.payload = "empty" THEN skipped
             ELSE IF original_ext_lower = GIF_EXT
                  THEN extracted(<<slide_prefix>> \o original_filename,
                                 generate_description_gpt4o(boundary))
             ELSE extracted(<<slide_prefix>> \o base_name \o PNG_EXT,
                            IF gemini[2] # NoText
                            THEN <<"Error: ">> \o gemini[2]
                            ELSE gemini[1])
        ELSE skipped

\* an entry whose description request fails is skipped without a row
desc_extract_entry_failure_skips(e, boundary, map, ppt_name, acc) ==
    LET file               == e.name
        original_filename  == basename(file)
        base_name          == splitext(original_filename)[1]
        original_ext_lower == lower(splitext(original_filename)[2])
        slide_num          == map_get(map, file)
        slide_prefix       == slide_prefix_of(slide_num)
        page_of_ppt        == IF slide_num # None THEN <<slide_num>> ELSE <<"UNK">>
        skipped == DescAcc(acc.files, acc.extracted_count, acc.skipped_count + 1,
                           acc.csv_rows)
        extracted(output_filename, description) ==
            IF description # DESCRIPTION THEN skipped
            ELSE DescAcc(acc.files \cup {output_filename}, acc.extracted_count + 1,
                         acc.skipped_count,
                         Append(acc.csv_rows,
                                [Page_of_PPT |-> page_of_ppt,
                                 image_filename |-> output_filename,
                                 ppt_name |-> ppt_name,
                                 description |-> description]))
        gemini == generate_description_gemini(boundary)
    IN  IF is_whitelisted(original_ext_lower)
        THEN IF e.payload = "unreadable" THEN skipped
             ELSE IF e.payload = "empty" THEN skipped
             ELSE IF original_ext_lower = GIF_EXT
                  THEN extracted(<<slide_prefix>> \o original_filename,
                                 generate_description_gpt4o(boundary))
             ELSE IF e.payload = "corrupt" THEN skipped
             ELSE extracted(<<slide_prefix>> \o base_name \o PNG_EXT,
                            IF gemini[2] # NoText
                            THEN <<"Error: ">> \o gemini[2]
                            ELSE gemini[1])
        ELSE skipped

\* one iteration of the media loop, for an entry under ppt/media/
desc_extract_entry(e, boundary, map, ppt_name, acc) ==
    LET file               == e.name
        original_filename  == basename(file)
        base_name          == splitext(original_filename)[1]
        original_ext_lower == lower(splitext(original_filename)[2])
        slide_num          == map_get(map, file)
        slide_prefix       == slide_prefix_of(slide_num)
        page_of_ppt        == IF slide_num # None THEN <<slide_num>> ELSE <<"UNK">>
        skipped == DescAcc(acc.files, acc.extracted_count, acc.skipped_count + 1,
                           acc.csv_rows)
        extracted(output_filename, description) ==
            DescAcc(acc.files \cup {output_filename}, acc.extracted_count + 1,
                    acc.skipped_count,
                    Append(acc.csv_rows,
                           [Page_of_PPT |-> page_of_ppt,
                            image_filename |-> output_filename,
                            ppt_name |-> ppt_name,
                            description |-> description]))
        gemini == generate_description_gemini(boundary)
    IN  IF is_whitelisted(original_ext_lower)
        THEN IF e.payload = "unreadable" THEN skipped
             ELSE IF e.payload = "empty" THEN skipped
             ELSE IF original_ext_lower = GIF_EXT
                  THEN extracted(<<slide_prefix>> \o original_filename,
                                 generate_description_gpt4o(boundary))
             ELSE IF e.payload = "corrupt" THEN skipped
             ELSE extracted(<<slide_prefix>> \o base_name \o PNG_EXT,
                            IF gemini[2] # NoText
                            THEN <<"Error: ">> \o gemini[2]
                            ELSE gemini[1])
        ELSE skipped

\* the media loop from entry i on; api[i] is the boundary's behaviour for
\* entry i
RECURSIVE desc_extract_loop(_, _, _, _, _, _)
desc_extract_loop(namelist, i, api, map, ppt_name, acc) ==
    IF i > Len(namelist) THEN acc
    ELSE desc_extract_loop(
             namelist, i + 1, api, map, ppt_name,
             IF startswith(namelist[i].name, MEDIA_PREFIX)
             THEN desc_extract_entry(namelist[i], api[i], map, ppt_name, acc)
             ELSE acc)

\* the data rows are written last row first
write_rows_reversed(csv_rows) ==
    [exists |-> TRUE, fieldnames |-> CSV_HEADER,
     rows |-> [i \in 1..Len(csv_rows) |-> csv_rows[Len(csv_rows) + 1 - i]]]

\* csv.writer(...).writerows(csv_rows)
write_rows(csv_rows) ==
    [exists |-> TRUE, fieldnames |-> CSV_HEADER, rows |-> csv_rows]

\* folder is [files, csv]: the output folder before the call; csv_ok says
\* whether descriptions.csv can be written
desc_extract_images_from_ppt(pil_installed, src, folder, api, csv_ok) ==
    LET result(raised, error, acc, csv, map) ==
            [raised |-> raised, error |-> error, files |-> acc.files,
             extracted_count |-> acc.extracted_count,
             skipped_count |-> acc.skipped_count,
             csv_rows |-> acc.csv_rows, csv |-> csv, map |-> map]
        start == DescAcc(folder.files, 0, 0, <<>>)
        map   == build_image_to_slide_map(rel_files_of(src.archive.namelist), EmptyMap)
        acc   == desc_extract_loop(src.archive.namelist, 1, api, map,
                                   basename(src.path), start)
    IN  IF ~pil_installed THEN result("ImportError", None, start, folder.csv, EmptyMap)
        ELSE IF ~endswith(lower(src.path), PPTX_SUFFIX)
             THEN result("ValueError", None, start, folder.csv, EmptyMap)
        ELSE IF ~src.exists
             THEN result("FileNotFoundError", None, start, folder.csv, EmptyMap)
        ELSE IF ~src.archive.valid
             THEN result(None, "BadZipFile", start, folder.csv, EmptyMap)
        ELSE result(None, IF csv_ok THEN None ELSE "csv_err", acc,
                    IF csv_ok THEN write_rows(acc.csv_rows) ELSE folder.csv, map)

(***************************************************************************)
(* main.py: upload, the tabular file's patch, organize_files.              *)
(***************************************************************************)
Range(f) == {f[i] : i \in DOMAIN f}

\* urllib.parse.quote(s3_key, safe='~/') on the characters of the model
quote_char(c) ==
    CASE c = "\\" -> "%5C"
      [] c = " "  -> "%20"
      [] OTHER    -> c

get_s3_url(s3_key) ==
    <<"https://server-ai-bucket.s3.ap-south-1.amazonaws.com/">>
        \o [i \in 1..Len(s3_key) |-> quote_char(s3_key[i])]

\* the URL, or NoText when s3.upload_file raises
upload_file_to_s3(upload_ok, key) == IF upload_ok THEN get_s3_url(key) ELSE NoText

\* csv.DictWriter(fieldnames).writeheader(); writerows(rows): a field a row
\* lacks is written as the empty string
dict_write(fieldnames, rows) ==
    [exists |-> TRUE, fieldnames |-> fieldnames,
     rows |-> [i \in 1..Len(rows) |->
                  [f \in Range(fieldnames) |->
                      IF f \in DOMAIN rows[i] THEN rows[i][f] ELSE <<>>]]]

\* row.get(col)
row_get(row, col) == IF col \in DOMAIN row THEN row[col] ELSE <<>>

\* the header is left as it was read
with_columns_unchanged(fieldnames) == fieldnames

with_columns(fieldnames) ==
    LET a == IF "s3_url" \in Range(fieldnames) THEN fieldnames
             ELSE Append(fieldnames, "s3_url")
    IN  IF "input_path" \in Range(a) THEN a ELSE Append(a, "input_path")

\* the patch sets the URL of the row and leaves its logical path as it was
update_csv_url_only(csv, filename, s3_url, input_path) ==
    IF ~csv.exists THEN csv
    ELSE LET fieldnames0 == IF csv.fieldnames = <<>>
                            THEN <<"image_filename", "description", "s3_url", "input_path">>
                            ELSE csv.fieldnames
             fieldnames == with_columns(fieldnames0)
             filename_col ==
                 IF "image_filename" \in Range(fieldnames) THEN "image_filename"
                 ELSE IF "filename" \in Range(fieldnames) THEN "filename"
                 ELSE IF "gif_filename" \in Range(fieldnames) THEN "gif_filename"
                 ELSE None
             rows == [i \in 1..Len(csv.rows) |->
                        IF row_get(csv.rows[i], filename_col) = filename
                        THEN [f \in DOMAIN csv.rows[i] \cup {"s3_url"} |->
                                 IF f = "s3_url" THEN s3_url
                                 ELSE csv.rows[i][f]]
                        ELSE csv.rows[i]]
         IN  IF filename_col = None THEN csv ELSE dict_write(fieldnames, rows)

\* the file's content after the call (the file itself when the call
\* returns False before writing)
update_csv_with_s3_url(csv, filename, s3_url, input_path) ==
    IF ~csv.exists THEN csv
    ELSE LET fieldnames0 == IF csv.fieldnames = <<>>
                            THEN <<"image_filename", "description", "s3_url", "input_path">>
                            ELSE csv.fieldnames
             fieldnames == with_columns(fieldnames0)
             filename_col ==
                 IF "image_filename" \in Range(fieldnames) THEN "image_filename"
                 ELSE IF "filename" \in Range(fieldnames) THEN "filename"
                 ELSE IF "gif_filename" \in Range(fieldnames) THEN "gif_filename"
                 ELSE None
             rows == [i \in 1..Len(csv.rows) |->
                        IF row_get(csv.rows[i], filename_col) = filename
                        THEN [f \in DOMAIN csv.rows[i] \cup {"s3_url", "input_path"} |->
                                 IF f = "s3_url" THEN s3_url
                                 ELSE IF f = "input_path" THEN input_path
                                 ELSE csv.rows[i][f]]
                        ELSE csv.rows[i]]
         IN  IF filename_col = None THEN csv ELSE dict_write(fieldnames, rows)

\* the fallback column is returned whatever the headers are
find_filename_column_fallback(headers) == "filename"

find_filename_column(headers) ==
    IF "image_filename" \in Range(headers) THEN "image_filename"
    ELSE IF "gif_filename" \in Range(headers) THEN "gif_filename"
    ELSE "filename"

is_gif_name(fname) == endswith(lower(fname), GIF_EXT)

is_image_name(fname) ==
    \E ext \in {<<".", "png">>, <<".", "jpg">>, <<".", "jpeg">>, <<".", "bmp">>,
                <<".", "tiff">>} : endswith(lower(fname), ext)

\* the tabular file is patched whether or not the upload returned a URL
RECURSIVE move_and_upload_always_patch(_, _, _, _, _)
move_and_upload_always_patch(fnames, media_type, ppt_relative_path, upload_fail, st) ==
    IF fnames = {} THEN st
    ELSE LET fname      == CHOOSE f \in fnames : TRUE
             key        == make_s3_key(ppt_relative_path, fname, media_type)
             url        == upload_file_to_s3(fname \notin upload_fail, key)
             input_path == replace_first(key, <<"PPT", "/">>)
         IN  move_and_upload_always_patch(
                 fnames \ {fname}, media_type, ppt_relative_path, upload_fail,
                 [temp_files |-> st.temp_files \ {fname},
                  dst_files  |-> st.dst_files \cup {fname},
                  s3  |-> IF url # NoText THEN st.s3 \cup {key} ELSE st.s3,
                  csv |-> update_csv_with_s3_url(st.csv, fname, url, input_path),
                  log |-> IF url # NoText THEN st.log
                          ELSE st.log \cup {<<"upload failed", fname>>}])

\* Steps 2 and 3: move each file, upload it and patch the tabular file.
\* st is [temp_files, dst_files, s3, csv, log]; upload_fail holds the file
\* names whose upload fails
RECURSIVE move_and_upload(_, _, _, _, _)
move_and_upload(fnames, media_type, ppt_relative_path, upload_fail, st) ==
    IF fnames = {} THEN st
    ELSE LET fname      == CHOOSE f \in fnames : TRUE
             key        == make_s3_key(ppt_relative_path, fname, media_type)
             url        == upload_file_to_s3(fname \notin upload_fail, key)
             input_path == replace_first(key, <<"PPT", "/">>)
         IN  move_and_upload(
                 fnames \ {fname}, media_type, ppt_relative_path, upload_fail,
                 [temp_files |-> st.temp_files \ {fname},
                  dst_files  |-> st.dst_files \cup {fname},
                  s3  |-> IF url # NoText THEN st.s3 \cup {key} ELSE st.s3,
                  csv |-> IF url # NoText
                          THEN update_csv_with_s3_url(st.csv, fname, url, input_path)
                          ELSE st.csv,
                  log |-> IF url # NoText THEN st.log
                          ELSE st.log \cup {<<"upload failed", fname>>}])

\* the rows of the file are inserted a second time
import_csv_dir_to_collection_twice(dir, collection, insert_ok) ==
    IF ~collection.available THEN collection
    ELSE IF ~dir.exists THEN collection
    ELSE IF ~dir.csv.exists THEN collection
    ELSE IF dir.csv.rows = <<>> THEN collection
    ELSE IF ~insert_ok THEN collection
    ELSE [collection EXCEPT !.docs = @ \o dir.csv.rows \o dir.csv.rows]

\* the content of the collection after the call; a directory is
\* [exists, files, csv], a collection [available, docs]
import_csv_dir_to_collection(dir, collection, insert_ok) ==
    IF ~collection.available THEN collection
    ELSE IF ~dir.exists THEN collection
    ELSE IF ~dir.csv.exists THEN collection
    ELSE IF dir.csv.rows = <<>> THEN collection
    ELSE IF ~insert_ok THEN collection
    ELSE [collection EXCEPT !.docs = @ \o dir.csv.rows]

\* fs is [temp, images, gifs, s3, images_col, gifs_col]; faults is
\* [upload_fail, insert_fail]: the files whose upload fails and the
\* categories ("images", "gifs") whose insert_many raises.  The result is
\* fs after the call, with the call's error and warning log
organize_files(fs, ppt_relative_path, faults) ==
    LET gif_files   == {f \in fs.temp.files : is_gif_name(f)}
        image_files == {f \in fs.temp.files : ~is_gif_name(f) /\ is_image_name(f)}
        st0 == [temp_files |-> fs.temp.files, dst_files |-> fs.images.files,
                s3 |-> fs.s3, csv |-> fs.temp.csv, log |-> {}]
        \* Step 5: the final tabular files are written and imported
        write_finals(moved, st2, fieldnames, image_rows, gif_rows) ==
            [fs |-> [moved EXCEPT
                       !.images = [exists |-> TRUE, files |-> @.files,
                                   csv |-> dict_write(fieldnames, image_rows)],
                       !.gifs = [exists |-> TRUE, files |-> @.files,
                                 csv |-> dict_write(fieldnames, gif_rows)],
                       !.images_col = import_csv_dir_to_collection(
                                          [exists |-> TRUE, files |-> moved.images.files,
                                           csv |-> dict_write(fieldnames, image_rows)],
                                          @, "images" \notin faults.insert_fail),
                       !.gifs_col = import_csv_dir_to_collection(
                                          [exists |-> TRUE, files |-> moved.gifs.files,
                                           csv |-> dict_write(fieldnames, gif_rows)],
                                          @, "gifs" \notin faults.insert_fail)],
             log |-> st2.log
                       \cup (IF ~fs.images_col.available \/ ~fs.gifs_col.available
                             THEN {<<"collection not available">>} ELSE {})
                       \cup {<<"insert failed", c>> :
                               c \in {x \in faults.insert_fail :
                                        \/ x = "images" /\ fs.images_col.available
                                                        /\ image_rows # <<>>
                                        \/ x = "gifs" /\ fs.gifs_col.available
                                                      /\ gif_rows # <<>>}}]
        \* Step 4: the rows are split by the extension of their file name
        split_rows(moved, st2, fieldnames, filename_col, valid_rows) ==
            write_finals(
                moved, st2, fieldnames,
                SelectSeq(valid_rows,
                          LAMBDA row : is_image_name(row_get(row, filename_col))),
                SelectSeq(valid_rows,
                          LAMBDA row : /\ ~is_image_name(row_get(row, filename_col))
                                       /\ is_gif_name(row_get(row, filename_col))))
        split(moved, st2, fieldnames, filename_col) ==
            split_rows(moved, st2, fieldnames, filename_col,
                       SelectSeq(st2.csv.rows,
                                 LAMBDA row : row_get(row, filename_col) # <<>>))
        moved(st1, st2) ==
            [fs EXCEPT !.temp.files = st2.temp_files, !.temp.csv = st2.csv,
                       !.images.files = st1.dst_files,
                       !.gifs.files = st2.dst_files, !.s3 = st2.s3]
        after_moves(st1, st2) ==
            IF st2.csv.fieldnames = <<>>
            THEN [fs |-> moved(st1, st2), log |-> st2.log \cup {<<"cannot split">>}]
            ELSE split(moved(st1, st2), st2, with_columns(st2.csv.fieldnames),
                       find_filename_column(with_columns(st2.csv.fieldnames)))
        \* Step 3: the GIFs, after the stills
        after_images(st1) ==
            after_moves(st1, move_and_upload(gif_files, "gifs", ppt_relative_path,
                                             faults.upload_fail,
                                             [st1 EXCEPT !.dst_files = fs.gifs.files]))
    IN  IF ~fs.temp.exists
        THEN [fs |-> fs, log |-> {<<"no temp dir">>}]
        ELSE IF ~fs.temp.csv.exists
             THEN [fs |-> fs, log |-> {<<"no csv">>}]
        ELSE after_images(move_and_upload(image_files, "images", ppt_relative_path,
                                          faults.upload_fail, st0))

(***************************************************************************)
(* Bounds and the inputs drawn from them.                                  *)
(***************************************************************************)
\* process_directory is invoked at most MaxRuns times
MaxRuns == 2

\* at most MaxFaults environment faults (a failing upload, insert, file
\* system call or description request) happen in one behaviour
MaxFaults == 2

Entry(name, xml, rels, payload) ==
    [name |-> name, xml |-> xml, rels |-> rels, payload |-> payload]

RelsEntry(digits, xml, rels) ==
    Entry(RELS_PREFIX \o <<digits>> \o RELS_SUFFIX, xml, rels, "ok")

MediaEntry(base, ext, payload) ==
    Entry(MEDIA_PREFIX \o <<base, ".", ext>>, "ok", <<>>, payload)

ImageRel(base, ext) ==
    [Type |-> "image", Target |-> <<"..", "/", "media", "/", base, ".", ext>>]

OtherEntry == Entry(<<"ppt", "/", "slides", "/", "slide", "1", ".", "xml">>, "ok", <<>>, "ok")

Archive(valid, namelist) == [valid |-> valid, namelist |-> namelist]

\* a file that is no zip container
NotAZip == Archive(FALSE, <<>>)

\* two stills of slide 2 and an animation of slide 1
ArchiveThree ==
    Archive(TRUE, << RelsEntry("2", "ok", <<ImageRel("a", "png"), ImageRel("b", "jpg")>>),
                     RelsEntry("1", "ok", <<ImageRel("c", "gif")>>),
                     OtherEntry,
                     MediaEntry("a", "png", "ok"),
                     MediaEntry("b", "jpg", "ok"),
                     MediaEntry("c", "gif", "ok") >>)

\* a still whose payload no decoder accepts, next to a sound one
ArchiveCorrupt ==
    Archive(TRUE, << RelsEntry("2", "ok", <<ImageRel("a", "png"), ImageRel("b", "jpg")>>),
                     MediaEntry("b", "jpg", "corrupt"),
                     MediaEntry("a", "png", "ok") >>)

\* a presentation without media
ArchiveNoMedia == Archive(TRUE, <<OtherEntry>>)

INPUT_DIR == <<"in">>

\* the relative paths of the files below the input root, in os.walk order
TreeFiles ==
    << <<"m", ".", "pptx">>, <<"notes", ".", "txt">>,
       <<"d", " ", "x", "/", "n", ".", "pptx">> >>

\* the input trees: the archive behind each presentation file
Trees ==
    { << [rel |-> TreeFiles[1], archive |-> a1],
         [rel |-> TreeFiles[2], archive |-> NotAZip],
         [rel |-> TreeFiles[3], archive |-> a2] >> :
        a1 \in {ArchiveThree, ArchiveCorrupt, ArchiveNoMedia, NotAZip},
        a2 \in {ArchiveThree, NotAZip} }
    \cup
    \* a directory of a case-sensitive file system with two presentations
    \* whose names differ in the case of the suffix
    { << [rel |-> <<"m", ".", "pptx">>, archive |-> ArchiveCorrupt],
         [rel |-> <<"m", ".", "PPTX">>, archive |-> ArchiveThree] >> }

\* the process environments: whether Pillow is importable and whether the
\* MongoDB connection of module initialisation succeeded
Environments ==
    { [pil |-> TRUE, mongo |-> TRUE], [pil |-> FALSE, mongo |-> TRUE],
      [pil |-> TRUE, mongo |-> FALSE] }

GoodBoundary == [load |-> TRUE, resps |-> <<"text", "text">>]

BadBoundary == [load |-> TRUE, resps |-> <<"raise", "raise">>]

\* the boundary answers every request with an empty text
EmptyBoundary == [load |-> TRUE, resps |-> <<"empty", "empty">>]

(***************************************************************************)
(* main.py: the directory walk.                                            *)
(***************************************************************************)
find_pptx_files(files) ==
    SelectSeq(files, LAMBDA f : endswith(lower(basename(f.rel)), PPTX_SUFFIX))

\* what names a presentation's output: checkpoint_dir and ppt_name, from
\* which the marker, the scratch and the output directories are derived
out_key(ppt_relative_path) ==
    <<dirname(ppt_relative_path), splitext(basename(ppt_relative_path))[1]>>

OutKeys ==
    {out_key(replace_char(TreeFiles[i], " ", "_")) :
        i \in {j \in 1..Len(TreeFiles) : endswith(lower(TreeFiles[j]), PPTX_SUFFIX)}}

EmptyDir == [exists |-> FALSE, files |-> {}, csv |-> NoFile]

VARIABLES
    PIL_INSTALLED,  \* img_ppt.py / descpgen.py: the import of Pillow succeeded
    tree,           \* the input directory
    marker,         \* out key -> the checkpoint file '.<name>.done' exists
    temp,           \* out key -> the scratch directory 'temp_processing'
    images_dirs,    \* out key -> the permanent images directory
    gifs_dirs,      \* out key -> the permanent gifs directory
    s3,             \* the keys stored in the bucket
    images_col,     \* the collection PPT.Images
    gifs_col,       \* the collection PPT.Gifs
    run,            \* the number of invocations of process_directory
    walk,           \* process_directory: [state, pptx_files, i, invoked]
    stage,          \* process_ppt: the stage of the presentation pptx_files[i]
    cur,            \* process_ppt: what the current or last call did and logged
    faults,         \* the number of environment faults so far
    call            \* a call of a function on its own: [fn, arg, res]

vars == <<PIL_INSTALLED, tree, marker, temp, images_dirs, gifs_dirs, s3,
          images_col, gifs_col, run, walk, stage, cur, faults, call>>

fs_vars == <<marker, temp, images_dirs, gifs_dirs, s3, images_col, gifs_col>>

NoCall == [fn |-> "none"]

\* cur is [key, result, made_temp, log, counts]: the out key of the call,
\* how it ended ("running" | "Skipped" | "Done" | "Failed" | "Raised"),
\* whether it made the scratch directory, the errors and warnings it logged,
\* and the <<extracted, skipped>> summary printed by the description step
NoPpt == [key |-> <<>>, result |-> "none", made_temp |-> FALSE, log |-> {},
          counts |-> <<0, 0>>, stale |-> EmptyDir]

Init ==
    /\ \E env \in Environments :
          /\ PIL_INSTALLED = env.pil
          /\ images_col = [available |-> env.mongo, docs |-> <<>>]
          /\ gifs_col = [available |-> env.mongo, docs |-> <<>>]
    /\ tree \in Trees
    /\ marker = [k \in OutKeys |-> FALSE]
    /\ temp = [k \in OutKeys |-> EmptyDir]
    /\ images_dirs = [k \in OutKeys |-> EmptyDir]
    /\ gifs_dirs = [k \in OutKeys |-> EmptyDir]
    /\ s3 = {}
    /\ run = 0
    /\ walk = [state |-> "idle", pptx_files |-> <<>>, i |-> 0, invoked |-> {}]
    /\ stage = "Pending"
    /\ cur = NoPpt
    /\ faults = 0
    /\ call = NoCall

(***************************************************************************)
(* main.py: process_directory and process_ppt.                             *)
(***************************************************************************)
\* os.path.join(root, name)
join(root, name) == IF root = <<>> THEN name ELSE root \o <<"/">> \o name

has_space(name) == " " \in Range(name)

\* the directories below the root: the proper prefixes of the file paths
dirs_of(files) ==
    UNION { {SubSeq(files[i].rel, 1, k - 1) :
                k \in {j \in 1..Len(files[i].rel) : files[i].rel[j] = "/"}} :
            i \in DOMAIN files }

depth(path) == Cardinality({k \in 1..Len(path) : path[k] = "/"})

\* the walk state: the files below the root, the paths whose rename raised
\* (each one logged), and the number of renames done
WalkState(files) == [files |-> files, errors |-> {}, renamed |-> 0]

\* os.rename of a file whose name has a space.  The call raises for a path
\* in fail and when the new name is a directory; when the new name is a
\* file it replaces that file on POSIX and raises on Windows.
rename_file(st, old, posix, fail) ==
    LET new    == join(dirname(old), replace_char(basename(old), " ", "_"))
        isdir  == \E i \in DOMAIN st.files : startswith(st.files[i].rel, new \o <<"/">>)
        isfile == \E i \in DOMAIN st.files : st.files[i].rel = new
        kept   == SelectSeq(st.files, LAMBDA f : f.rel # new)
    IN  IF old \in fail \/ isdir \/ (isfile /\ ~posix)
        THEN [st EXCEPT !.errors = @ \cup {old}]
        ELSE [files   |-> [i \in DOMAIN kept |->
                             IF kept[i].rel = old THEN [kept[i] EXCEPT !.rel = new]
                             ELSE kept[i]],
              errors  |-> st.errors,
              renamed |-> st.renamed + 1]

\* os.rename of a directory whose name has a space.  The call raises for a
\* path in fail and when the new name exists (a file, or a directory that
\* is not empty).
rename_dir(st, old, fail) ==
    LET new    == join(dirname(old), replace_char(basename(old), " ", "_"))
        exists == \E i \in DOMAIN st.files :
                     \/ st.files[i].rel = new
                     \/ startswith(st.files[i].rel, new \o <<"/">>)
    IN  IF old \in fail \/ exists
        THEN [st EXCEPT !.errors = @ \cup {old}]
        ELSE [files   |-> [i \in DOMAIN st.files |->
                             IF startswith(st.files[i].rel, old \o <<"/">>)
                             THEN [st.files[i] EXCEPT !.rel =
                                      new \o SubSeq(@, Len(old) + 1, Len(@))]
                             ELSE st.files[i]],
              errors  |-> st.errors,
              renamed |-> st.renamed + 1]

\* the loop over the files of every directory, in walk order
RECURSIVE rename_files(_, _, _, _)
rename_files(st, todo, posix, fail) ==
    IF todo = <<>> THEN st
    ELSE rename_files(rename_file(st, Head(todo), posix, fail), Tail(todo), posix, fail)

\* the loop over the directories, a directory after everything below it
RECURSIVE rename_dirs(_, _, _)
rename_dirs(st, todo, fail) ==
    IF todo = {} THEN st
    ELSE LET d == CHOOSE d \in todo : \A e \in todo : depth(d) >= depth(e)
         IN  rename_dirs(rename_dir(st, d, fail), todo \ {d}, fail)

\* the directories keep their names
sanitize_directory_structure_files_only(files, posix, fail) ==
    LET names == [i \in DOMAIN files |-> files[i].rel]
    IN  rename_files(WalkState(files),
                     SelectSeq(names, LAMBDA n : has_space(basename(n))),
                     posix, fail)

\* sanitize_directory_structure(root_dir): os.walk bottom-up; in every
\* directory the files with a space in their name are renamed, then the
\* directories with a space in their name
sanitize_directory_structure(files, posix, fail) ==
    LET names == [i \in DOMAIN files |-> files[i].rel]
    IN  rename_dirs(rename_files(WalkState(files),
                                 SelectSeq(names, LAMBDA n : has_space(basename(n))),
                                 posix, fail),
                    {d \in dirs_of(files) : has_space(basename(d))},
                    fail)

\* process_directory up to the first call of process_ppt
StartRun ==
    /\ walk.state \in {"idle", "finished", "aborted"}
    /\ run < MaxRuns
    /\ run' = run + 1
    /\ tree' = sanitize_directory_structure(tree, TRUE, {}).files
    /\ LET pptx_files == find_pptx_files(tree')
       IN  walk' = [state |-> IF pptx_files = <<>> THEN "finished" ELSE "walking",
                    pptx_files |-> pptx_files, i |-> 1, invoked |-> {}]
    /\ stage' = "Pending"
    /\ cur' = NoPpt
    /\ UNCHANGED <<PIL_INSTALLED, fs_vars, faults, call>>

InPpt(st) == walk.state = "walking" /\ stage = st

\* the presentation process_ppt is called for
ppt_file == walk.pptx_files[walk.i]

ppt_key == out_key(ppt_file.rel)

ppt_src ==
    [path |-> INPUT_DIR \o <<"/">> \o ppt_file.rel, exists |-> TRUE,
     archive |-> ppt_file.archive]

\* process_ppt returns and the for loop of process_directory goes on
returned == [walk EXCEPT !.i = @ + 1,
                         !.invoked = @ \cup {walk.i},
                         !.state = IF walk.i = Len(walk.pptx_files)
                                   THEN "finished" ELSE "walking"]

\* an exception leaves process_ppt and, uncaught, process_directory
propagated == [walk EXCEPT !.invoked = @ \cup {walk.i}, !.state = "aborted"]

\* the marker test finds no marker, whatever the output tree holds
checkpoint_exists_never(key) == FALSE

\* os.path.exists(checkpoint_file)
checkpoint_exists(key) == marker[key]

\* process_ppt for a presentation whose checkpoint marker exists
PptSkip ==
    /\ InPpt("Pending")
    /\ checkpoint_exists(ppt_key)
    /\ walk' = returned
    /\ cur' = [NoPpt EXCEPT !.key = ppt_key, !.result = "Skipped"]
    /\ UNCHANGED <<PIL_INSTALLED, tree, fs_vars, run, stage, faults, call>>

\* process_ppt that makes the scratch directory without removing the one
\* an earlier attempt left behind
PptBegin_keeps_stale ==
    /\ InPpt("Pending")
    /\ ~checkpoint_exists(ppt_key)
    /\ temp' = [temp EXCEPT ![ppt_key].exists = TRUE]
    /\ images_dirs' = [images_dirs EXCEPT ![ppt_key].exists = TRUE]
    /\ gifs_dirs' = [gifs_dirs EXCEPT ![ppt_key].exists = TRUE]
    /\ stage' = "Extracting"
    /\ cur' = [NoPpt EXCEPT !.key = ppt_key, !.result = "running", !.made_temp = TRUE,
                            !.stale = temp[ppt_key]]
    /\ UNCHANGED <<PIL_INSTALLED, tree, marker, s3, images_col, gifs_col, run, walk,
                   faults, call>>

\* process_ppt up to the try block: the scratch directory is made afresh
\* (cur.stale is what shutil.rmtree found there and removed) and the
\* output directories are set up
PptBegin ==
    /\ InPpt("Pending")
    /\ ~checkpoint_exists(ppt_key)
    /\ temp' = [temp EXCEPT ![ppt_key] = [exists |-> TRUE, files |-> {}, csv |-> NoFile]]
    /\ images_dirs' = [images_dirs EXCEPT ![ppt_key].exists = TRUE]
    /\ gifs_dirs' = [gifs_dirs EXCEPT ![ppt_key].exists = TRUE]
    /\ stage' = "Extracting"
    /\ cur' = [NoPpt EXCEPT !.key = ppt_key, !.result = "running", !.made_temp = TRUE,
                            !.stale = temp[ppt_key]]
    /\ UNCHANGED <<PIL_INSTALLED, tree, marker, s3, images_col, gifs_col, run, walk,
                   faults, call>>

\* a file system call before the try block raises: os.makedirs of the
\* checkpoint directory, shutil.rmtree of a stale scratch directory,
\* os.makedirs of the scratch directory, or setup_output_directories
PptBeginFails ==
    /\ InPpt("Pending")
    /\ ~checkpoint_exists(ppt_key)
    /\ faults < MaxFaults
    /\ faults' = faults + 1
    /\ \E at \in {"checkpoint_dir", "rmtree", "makedirs_temp", "setup_output_directories"} :
          /\ at = "rmtree" => temp[ppt_key].exists
          /\ temp' = CASE at = "makedirs_temp" ->
                            [temp EXCEPT ![ppt_key] = EmptyDir]
                       [] at = "setup_output_directories" ->
                            [temp EXCEPT ![ppt_key] =
                                [exists |-> TRUE, files |-> {}, csv |-> NoFile]]
                       [] OTHER -> temp
          /\ cur' = [NoPpt EXCEPT !.key = ppt_key, !.result = "Raised",
                                   !.made_temp = (at = "setup_output_directories"),
                                   !.log = {<<"exception", at>>}]
    /\ walk' = propagated
    /\ UNCHANGED <<PIL_INSTALLED, tree, marker, images_dirs, gifs_dirs, s3,
                   images_col, gifs_col, run, stage, call>>

\* img_ppt.extract_images_from_ppt(ppt_path, temp_dir)
Extract ==
    /\ InPpt("Extracting")
    /\ LET res == img_extract_images_from_ppt(PIL_INSTALLED, ppt_src, temp[ppt_key].files)
       IN  /\ temp' = [temp EXCEPT ![ppt_key].files = res.files]
           /\ stage' = IF res.raised # None THEN "Failed" ELSE "Describing"
           /\ cur' = [cur EXCEPT !.log =
                        @ \cup (IF res.raised # None
                                THEN {<<"exception", res.raised>>} ELSE {})
                          \cup (IF res.error # None
                                THEN {<<"extract error", res.error>>} ELSE {})]
    /\ UNCHANGED <<PIL_INSTALLED, tree, marker, images_dirs, gifs_dirs, s3,
                   images_col, gifs_col, run, walk, faults, call>>

\* descpgen.extract_images_from_ppt(ppt_path, temp_dir)
Describe ==
    /\ InPpt("Describing")
    /\ \E boundary \in {GoodBoundary, BadBoundary}, csv_ok \in BOOLEAN :
          LET api == [i \in 1..Len(ppt_src.archive.namelist) |-> boundary]
              res == desc_extract_images_from_ppt(
                         PIL_INSTALLED, ppt_src,
                         [files |-> temp[ppt_key].files, csv |-> temp[ppt_key].csv],
                         api, csv_ok)
              n   == (IF boundary = BadBoundary THEN 1 ELSE 0)
                       + (IF csv_ok THEN 0 ELSE 1)
          IN  /\ boundary = BadBoundary => res.extracted_count > 0
              /\ ~csv_ok => res.error = "csv_err"
              /\ faults + n <= MaxFaults
              /\ faults' = faults + n
              /\ temp' = [temp EXCEPT ![ppt_key].files = res.files,
                                      ![ppt_key].csv = res.csv]
              /\ stage' = IF res.raised # None THEN "Failed" ELSE "Organizing"
              /\ cur' = [cur EXCEPT
                           !.counts = <<res.extracted_count, res.skipped_count>>,
                           !.log =
                           @ \cup (IF res.raised # None
                                   THEN {<<"exception", res.raised>>} ELSE {})
                             \cup (IF res.error # None
                                   THEN {<<"describe error", res.error>>} ELSE {})]
    /\ UNCHANGED <<PIL_INSTALLED, tree, marker, images_dirs, gifs_dirs, s3,
                   images_col, gifs_col, run, walk, call>>

\* organize_files(temp_dir, images_dir, gifs_dir, ppt_relative_path, input_dir)
Organize ==
    /\ InPpt("Organizing")
    /\ \E upload_fail \in SUBSET temp[ppt_key].files,
          insert_fail \in SUBSET {"images", "gifs"} :
          \E res \in {organize_files(
                         [temp |-> temp[ppt_key], images |-> images_dirs[ppt_key],
                          gifs |-> gifs_dirs[ppt_key], s3 |-> s3,
                          images_col |-> images_col, gifs_col |-> gifs_col],
                         ppt_file.rel,
                         [upload_fail |-> upload_fail, insert_fail |-> insert_fail])} :
              /\ \A f \in upload_fail : <<"upload failed", f>> \in res.log
              /\ \A c \in insert_fail : <<"insert failed", c>> \in res.log
              /\ faults + Cardinality(upload_fail) + Cardinality(insert_fail) <= MaxFaults
              /\ faults' = faults + Cardinality(upload_fail) + Cardinality(insert_fail)
              /\ temp' = [temp EXCEPT ![ppt_key] = res.fs.temp]
              /\ images_dirs' = [images_dirs EXCEPT ![ppt_key] = res.fs.images]
              /\ gifs_dirs' = [gifs_dirs EXCEPT ![ppt_key] = res.fs.gifs]
              /\ s3' = res.fs.s3
              /\ images_col' = res.fs.images_col
              /\ gifs_col' = res.fs.gifs_col
              /\ cur' = [cur EXCEPT !.log = @ \cup res.log]
    /\ stage' = "Organized"
    /\ UNCHANGED <<PIL_INSTALLED, tree, marker, run, walk, call>>

\* the checkpoint file is written, or open() raises
Checkpoint ==
    /\ InPpt("Organized")
    /\ \E ok \in BOOLEAN :
          /\ ~ok => faults < MaxFaults
          /\ faults' = IF ok THEN faults ELSE faults + 1
          /\ marker' = IF ok THEN [marker EXCEPT ![ppt_key] = TRUE] ELSE marker
          /\ stage' = IF ok THEN "Done" ELSE "Failed"
          /\ cur' = IF ok THEN cur
                    ELSE [cur EXCEPT !.log = @ \cup {<<"exception", "checkpoint_file">>}]
    /\ UNCHANGED <<PIL_INSTALLED, tree, temp, images_dirs, gifs_dirs, s3,
                   images_col, gifs_col, run, walk, call>>

\* the finally block: the scratch directory is removed, or rmtree raises
\* and the failure is logged; process_ppt returns
Finally ==
    /\ walk.state = "walking"
    /\ stage \in {"Done", "Failed"}
    /\ \E ok \in BOOLEAN :
          /\ ~ok => temp[ppt_key].exists /\ faults < MaxFaults
          /\ faults' = IF ok THEN faults ELSE faults + 1
          /\ temp' = IF ok THEN [temp EXCEPT ![ppt_key] = EmptyDir] ELSE temp
          /\ cur' = [cur EXCEPT !.result = stage,
                                !.log = IF ok THEN @ ELSE @ \cup {<<"cleanup failed">>}]
    /\ walk' = returned
    /\ stage' = "Pending"
    /\ UNCHANGED <<PIL_INSTALLED, tree, marker, images_dirs, gifs_dirs, s3,
                   images_col, gifs_col, run, call>>

Next ==
    \/ StartRun
    \/ PptSkip
    \/ PptBegin
    \/ PptBeginFails
    \/ Extract
    \/ Describe
    \/ Organize
    \/ Checkpoint
    \/ Finally

Spec == Init /\ [][Next]_vars

(***************************************************************************)
(* The extraction functions on their own: one call of either               *)
(* extract_images_from_ppt on a bounded set of sources.                    *)
(***************************************************************************)
\* an archive holds at most MaxRels relationship descriptors
MaxRels == 2

\* an archive holds at most MaxMedia entries under ppt/media/
MaxMedia == 2

NonImageRel(base, ext) ==
    [Type |-> "slideLayout", Target |-> <<"..", "/", "media", "/", base, ".", ext>>]

RelPool ==
    { RelsEntry("01", "ok", <<NonImageRel("b", "jpg"), ImageRel("a", "png")>>),
      RelsEntry("2", "ok", <<ImageRel("a", "png"), ImageRel("c", "gif")>>),
      RelsEntry("2", "malformed", <<ImageRel("a", "png"), ImageRel("b", "jpg")>>),
      RelsEntry("X", "ok", <<ImageRel("b", "jpg")>>) }

MediaPool ==
    { MediaEntry("a", "png", "ok"), MediaEntry("a", "jpg", "ok"),
      MediaEntry("b", "jpg", "corrupt"), MediaEntry("b", "jpg", "empty"),
      MediaEntry("c", "gif", "ok"), MediaEntry("c", "GIF", "unreadable"),
      MediaEntry("n", "txt", "ok") }

\* the sequences of at most n entries of pool, no name twice
EntrySeqs(pool, n) ==
    UNION { {q \in [1..k -> pool] :
                \A i, j \in 1..k : i # j => q[i].name # q[j].name} : k \in 0..n }

GenArchives ==
    { Archive(TRUE, r \o m) : r \in EntrySeqs(RelPool, MaxRels),
                              m \in EntrySeqs(MediaPool, MaxMedia) }

PptPath == <<"in", "/", "m", ".", "pptx">>

Sources ==
    { [path |-> PptPath, exists |-> TRUE, archive |-> a] :
        a \in GenArchives \cup {NotAZip} }
    \cup { [path |-> <<"in", "/", "m", ".", "PPTX">>, exists |-> TRUE,
            archive |-> ArchiveThree],
           [path |-> PptPath, exists |-> FALSE, archive |-> NotAZip],
           [path |-> <<"in", "/", "m", ".", "ppt">>, exists |-> TRUE,
            archive |-> ArchiveThree],
           [path |-> <<"in", "/", "m", ".", "ppt">>, exists |-> FALSE,
            archive |-> NotAZip] }

\* the state of the pipeline while a function is called on its own
PipelineIdle ==
    /\ tree \in {<<>>}
    /\ marker = [k \in OutKeys |-> FALSE]
    /\ temp = [k \in OutKeys |-> EmptyDir]
    /\ images_dirs = [k \in OutKeys |-> EmptyDir]
    /\ gifs_dirs = [k \in OutKeys |-> EmptyDir]
    /\ s3 = {}
    /\ images_col = [available |-> TRUE, docs |-> <<>>]
    /\ gifs_col = [available |-> TRUE, docs |-> <<>>]
    /\ run = 0
    /\ walk = [state |-> "idle", pptx_files |-> <<>>, i |-> 0, invoked |-> {}]
    /\ stage = "Pending"
    /\ cur = NoPpt
    /\ faults = 0

InitExtract ==
    /\ PIL_INSTALLED \in BOOLEAN
    /\ PipelineIdle
    /\ \E src \in Sources : call = [fn |-> "none", arg |-> src]

\* the indices of the entries under ppt/media/
media_indices(namelist) ==
    {i \in 1..Len(namelist) : startswith(namelist[i].name, MEDIA_PREFIX)}

\* img_ppt.extract_images_from_ppt(ppt_path, output_folder), empty folder
CallImgExtract ==
    /\ call.fn = "none"
    /\ call' = [fn |-> "img_ppt", arg |-> call.arg,
                res |-> img_extract_images_from_ppt(PIL_INSTALLED, call.arg, {})]
    /\ UNCHANGED <<PIL_INSTALLED, tree, fs_vars, run, walk, stage, cur, faults>>

\* descpgen.extract_images_from_ppt(ppt_path, output_folder), empty folder;
\* the description boundary fails for the entries of bad: every request
\* raises, or every request is answered with an empty text
CallDescExtract ==
    /\ call.fn = "none"
    /\ \E bad \in SUBSET media_indices(call.arg.archive.namelist),
          failing \in {BadBoundary, EmptyBoundary} :
          LET api == [i \in 1..Len(call.arg.archive.namelist) |->
                        IF i \in bad THEN failing ELSE GoodBoundary]
          IN  call' = [fn |-> "descpgen", arg |-> call.arg, api |-> api,
                       res |-> desc_extract_images_from_ppt(
                                   PIL_INSTALLED, call.arg,
                                   [files |-> {}, csv |-> NoFile], api, TRUE)]
    /\ UNCHANGED <<PIL_INSTALLED, tree, fs_vars, run, walk, stage, cur, faults>>

NextExtract == CallImgExtract \/ CallDescExtract

SpecExtract == InitExtract /\ [][NextExtract]_vars

(***************************************************************************)
(* make_s3_key on its own.                                                 *)
(***************************************************************************)
\* the directory part of a relative path has at most MaxDirLen characters
MaxDirLen == 5

\* a file name argument has at most MaxNameLen characters
MaxNameLen == 2

StringsUpTo(alphabet, n) == UNION {[1..k -> alphabet] : k \in 0..n}

KeyPaths ==
    {<<"m", ".", "pptx">>}
    \cup {d \o <<"/", "m", ".", "pptx">> : d \in StringsUpTo({"d", "/", "\\"}, MaxDirLen)}
    \cup {d \o <<"\\", "m", ".", "pptx">> : d \in StringsUpTo({"d"}, MaxDirLen)}

KeyNames ==
    {n \o <<"f", ".", "png">> : n \in StringsUpTo({"x", "/", "\\"}, MaxNameLen)}

InitKey ==
    /\ PIL_INSTALLED = TRUE
    /\ PipelineIdle
    /\ \E path \in KeyPaths, name \in KeyNames, media_type \in {"images", "gifs"} :
          call = [fn |-> "none",
                  arg |-> [ppt_relative_path |-> path, filename |-> name,
                           media_type |-> media_type]]

CallMakeKey ==
    /\ call.fn = "none"
    /\ call' = [fn |-> "make_s3_key", arg |-> call.arg,
                res |-> make_s3_key(call.arg.ppt_relative_path, call.arg.filename,
                                    call.arg.media_type)]
    /\ UNCHANGED <<PIL_INSTALLED, tree, fs_vars, run, walk, stage, cur, faults>>

NextKey == CallMakeKey

SpecKey == InitKey /\ [][NextKey]_vars

(***************************************************************************)
(* The description boundaries on their own: one description request.       *)
(***************************************************************************)
\* the external API has at most MaxResps responses ready for one request
MaxResps == 3

Responses == {"text", "empty", "noformat", "raise"}

\* the image loads (load), or Image.open raises (~opened), or img.verify()
\* raises on the opened image (opened)
Boundaries ==
    { [load |-> l, opened |-> o, resps |-> r] :
        l \in BOOLEAN, o \in BOOLEAN, r \in [1..MaxResps -> Responses] }
    \ { b \in [load : {TRUE}, opened : {FALSE}, resps : [1..MaxResps -> Responses]] :
          TRUE }

InitDescribe ==
    /\ PIL_INSTALLED = TRUE
    /\ PipelineIdle
    /\ \E boundary \in Boundaries : call = [fn |-> "none", arg |-> boundary]

\* generate_description_gpt4o(image_data, hint)
CallGpt4o ==
    /\ call.fn = "none"
    /\ call' = [fn |-> "generate_description_gpt4o", arg |-> call.arg,
                res |-> [description |-> generate_description_gpt4o(call.arg),
                         error |-> NoText,
                         api_calls |-> gpt4o_api_calls(call.arg),
                         handles |-> [opened |-> 0, closed |-> 0]]]
    /\ UNCHANGED <<PIL_INSTALLED, tree, fs_vars, run, walk, stage, cur, faults>>

\* generate_description_gemini(image_path, hint, context_text)
CallGemini ==
    /\ call.fn = "none"
    /\ call' = [fn |-> "generate_description_gemini", arg |-> call.arg,
                res |-> [description |-> generate_description_gemini(call.arg)[1],
                         error |-> generate_description_gemini(call.arg)[2],
                         api_calls |-> gemini_api_calls(call.arg),
                         handles |-> gemini_image_handles(call.arg)]]
    /\ UNCHANGED <<PIL_INSTALLED, tree, fs_vars, run, walk, stage, cur, faults>>

NextDescribe == CallGpt4o \/ CallGemini

SpecDescribe == InitDescribe /\ [][NextDescribe]_vars

(***************************************************************************)
(* update_csv_with_s3_url on its own: one patch of a tabular file.         *)
(***************************************************************************)
\* a tabular file has at most MaxRows data rows
MaxRows == 2

FileNames == {<<"slide1_", "a", ".", "png">>, <<"slide2_", "c", ".", "gif">>}

CsvHeaders ==
    { CSV_HEADER,
      CSV_HEADER \o <<"s3_url", "input_path">>,
      <<"filename", "description">>,
      <<"description">> }

\* a row under the header: its file name, its description, and the URL
\* fields of an earlier patch (when the header has them)
CsvRow(header, name, patched) ==
    [f \in Range(header) |->
        IF f \in {"image_filename", "filename"} THEN name
        ELSE IF f = "s3_url" THEN (IF patched THEN <<"https://old">> ELSE <<>>)
        ELSE IF f = "input_path" THEN (IF patched THEN <<"old">> ELSE <<>>)
        ELSE <<f, "of">> \o name]

CsvFiles ==
    UNION { { [exists |-> TRUE, fieldnames |-> h, rows |-> r] :
                r \in UNION { [1..n -> {CsvRow(h, name, patched) :
                                           name \in FileNames, patched \in BOOLEAN}] :
                              n \in 0..MaxRows } } :
            h \in CsvHeaders }

InitCsv ==
    /\ PIL_INSTALLED = TRUE
    /\ PipelineIdle
    /\ \E csv \in CsvFiles, filename \in FileNames :
          call = [fn |-> "none",
                  arg |-> [csv |-> csv, filename |-> filename,
                           s3_url |-> get_s3_url(make_s3_key(<<"m", ".", "pptx">>,
                                                             filename, "images")),
                           input_path |-> replace_first(
                                              make_s3_key(<<"m", ".", "pptx">>,
                                                          filename, "images"),
                                              <<"PPT", "/">>)]]

\* update_csv_with_s3_url(csv_path, filename, s3_url, input_path)
CallUpdateCsv ==
    /\ call.fn = "none"
    /\ call' = [fn |-> "update_csv_with_s3_url", arg |-> call.arg,
                res |-> update_csv_with_s3_url(call.arg.csv, call.arg.filename,
                                               call.arg.s3_url, call.arg.input_path)]
    /\ UNCHANGED <<PIL_INSTALLED, tree, fs_vars, run, walk, stage, cur, faults>>

NextCsv == CallUpdateCsv

SpecCsv == InitCsv /\ [][NextCsv]_vars

(***************************************************************************)
(* process_directory on trees whose names have spaces: the renaming walk,  *)
(* the discovery, and the calls of process_ppt (the calls themselves are    *)
(* those of the pipeline above and are only recorded here).                *)
(***************************************************************************)
\* process_directory is invoked at most MaxInvocations times on a tree
MaxInvocations == 2

\* a tree has at most MaxTreeFiles files
MaxTreeFiles == 3

\* the relative paths a tree is made of, in os.walk order
PathPool ==
    << <<"a", " ", "b", ".", "pptx">>,
       <<"a", "_", "b", ".", "pptx">>,
       <<"d", " ", "e", "/", "n", ".", "pptx">>,
       <<"d", " ", "e", "/", "n", " ", "m", ".", "pptx">>,
       <<"d", "_", "e", "/", "k", ".", "pptx">>,
       <<"x", " ", "y", ".", "txt">> >>

\* a tree: some files of the pool, each with its own content
SpacedTrees ==
    { SelectSeq([i \in DOMAIN PathPool |-> [rel |-> PathPool[i], archive |-> i]],
                LAMBDA f : f.archive \in chosen) :
        chosen \in {c \in SUBSET (DOMAIN PathPool) : Cardinality(c) <= MaxTreeFiles} }

\* the paths whose os.rename raises for a reason of the environment
RenameFaults ==
    {{}} \cup {{PathPool[1]}, {PathPool[4]}, {<<"d", " ", "e">>}}

InitSanitize ==
    /\ PIL_INSTALLED = TRUE
    /\ PipelineIdle
    /\ \E files \in SpacedTrees, posix \in BOOLEAN, fail \in RenameFaults :
          call = [fn |-> "process_directory", pc |-> "idle", posix |-> posix,
                  fail |-> fail, files |-> files, invoked |-> 0, sanitized |-> 0,
                  errors |-> {}, renamed |-> 0, pptx_files |-> <<>>, i |-> 0,
                  processed |-> {}]

\* process_directory: sanitize_directory_structure(input_dir)
SanitizeStep ==
    /\ call.fn = "process_directory"
    /\ call.pc \in {"idle", "returned"}
    /\ call.invoked < MaxInvocations
    /\ \E res \in {sanitize_directory_structure(call.files, call.posix, call.fail)} :
          call' = [call EXCEPT !.pc = "sanitized", !.invoked = @ + 1,
                               !.sanitized = @ + 1, !.files = res.files,
                               !.errors = @ \cup res.errors,
                               !.renamed = res.renamed,
                               !.pptx_files = <<>>, !.i = 0, !.processed = {}]
    /\ UNCHANGED <<PIL_INSTALLED, tree, fs_vars, run, walk, stage, cur, faults>>

\* process_directory: pptx_files = find_pptx_files(input_dir); the function
\* returns when there is none
DiscoverStep ==
    /\ call.fn = "process_directory"
    /\ call.pc = "sanitized"
    /\ \E found \in {find_pptx_files(call.files)} :
          call' = [call EXCEPT !.pc = IF found = <<>> THEN "returned" ELSE "processing",
                               !.pptx_files = found, !.i = 1]
    /\ UNCHANGED <<PIL_INSTALLED, tree, fs_vars, run, walk, stage, cur, faults>>

\* process_directory: one iteration of the loop over pptx_files
ProcessStep ==
    /\ call.fn = "process_directory"
    /\ call.pc = "processing"
    /\ call' = [call EXCEPT !.processed = @ \cup {call.pptx_files[call.i].rel},
                            !.i = @ + 1,
                            !.pc = IF call.i = Len(call.pptx_files)
                                   THEN "returned" ELSE "processing"]
    /\ UNCHANGED <<PIL_INSTALLED, tree, fs_vars, run, walk, stage, cur, faults>>

NextSanitize ==
    \/ SanitizeStep
    \/ DiscoverStep
    \/ ProcessStep

SpecSanitize == InitSanitize /\ [][NextSanitize]_vars

(***************************************************************************)
(* Properties.                                                             *)
(***************************************************************************)
LogHas(tag) == \E e \in cur.log : e[1] = tag

InCall == walk.state = "walking" /\ stage # "Pending"

\* the characterisation of the media loop by the entry alone
IsWhitelisted(e) ==
    lower_char(e.name[Len(e.name)])
        \in {"gif", "png", "jpg", "jpeg", "bmp", "tiff", "tif", "webp"}

IsGifEntry(e) == lower_char(e.name[Len(e.name)]) = "gif"

\* the entry yields an output file: its payload can be read, is not empty
\* and, unless it is copied verbatim, can be decoded
Produces(e) ==
    /\ IsWhitelisted(e)
    /\ e.payload = "ok" \/ (IsGifEntry(e) /\ e.payload = "corrupt")

\* f is a name the output of entry e can have: a slide prefix, the base
\* name of e, and e's extension for a GIF, .png otherwise
IsOutputOf(f, e) ==
    /\ Len(f) = 4
    /\ f[2] = e.name[Len(e.name) - 2]
    /\ f[3] = "."
    /\ f[4] = IF IsGifEntry(e) THEN e.name[Len(e.name)] ELSE "png"

\* C1 (as claimed): the checkpoint marker of a presentation is written only
\* when extraction, description generation, organizing and the database
\* import of that call all completed without a failure; a failure at one of
\* them (an archive that is no zip container, a scratch directory without a
\* tabular file) leaves the presentation unmarked.
C1_MarkerOnlyAfterFullSuccess ==
    (stage = "Done" \/ cur.result = "Done") =>
        ~\E e \in cur.log :
            e[1] \in {"extract error", "describe error", "no temp dir", "no csv",
                      "cannot split", "insert failed"}

\* C2: a call of process_ppt for a presentation whose checkpoint marker
\* exists changes neither the output tree (marker, scratch, images and gifs
\* directories with their tabular files), nor the bucket, nor either
\* collection, starts no stage, and returns as skipped.
C2_SkipChangesNothing ==
    [][(walk.state = "walking" /\ stage = "Pending" /\ marker[ppt_key])
           => /\ UNCHANGED fs_vars
              /\ stage' = "Pending"
              /\ cur'.result = "Skipped"]_vars

\* a marked presentation was skipped while the collections held its rows
C2_Witness ==
    /\ cur.result = "Skipped"
    /\ marker[cur.key]
    /\ images_col.docs # <<>>
    /\ images_dirs[cur.key].files # {}

\* C3 (as claimed): once process_ppt has made the scratch directory, the
\* directory is gone when process_ppt is left, on every exit path.
C3_ScratchRemovedOnEveryExit ==
    (stage = "Pending" /\ cur.made_temp /\ cur.result \in {"Done", "Failed", "Raised"})
        => ~temp[cur.key].exists

\* C4 (as claimed): when process_directory ends, process_ppt has been called
\* for every presentation found, whatever failed while one was processed.
C4_WalkNeverAborted ==
    walk.state \in {"finished", "aborted"}
        => walk.invoked = 1..Len(walk.pptx_files)

\* C5: when the upload of a file fails during organizing, the file is still
\* moved to its permanent directory, its row is in the category file with
\* empty s3_url and input_path, every file of the scratch directory is
\* moved, every other file is uploaded and has its URL in its row, and the
\* call does not fail because of it: it fails only when writing the marker
\* itself fails.
C5_UploadFailureContained ==
    /\ (walk.state = "walking" /\ stage \in {"Organized", "Done"} /\ LogHas("upload failed"))
         => /\ temp[ppt_key].files = {}
            /\ \A gif \in BOOLEAN :
                  LET dir == IF gif THEN gifs_dirs[ppt_key] ELSE images_dirs[ppt_key]
                      media_type == IF gif THEN "gifs" ELSE "images"
                      namelist == ppt_file.archive.namelist
                      \* the files of this presentation (the directory can
                      \* hold files of another one of the same base name)
                      own == {f \in dir.files :
                                \E i \in media_indices(namelist) :
                                   Produces(namelist[i]) /\ IsOutputOf(f, namelist[i])}
                  IN  \A f \in own :
                         /\ \E i \in 1..Len(dir.csv.rows) :
                               dir.csv.rows[i].image_filename = f
                         /\ \A i \in 1..Len(dir.csv.rows) :
                               dir.csv.rows[i].image_filename = f =>
                                  IF <<"upload failed", f>> \in cur.log
                                  THEN /\ dir.csv.rows[i].s3_url = <<>>
                                       /\ dir.csv.rows[i].input_path = <<>>
                                  ELSE /\ make_s3_key(ppt_file.rel, f, media_type) \in s3
                                       /\ dir.csv.rows[i].s3_url # <<>>
                                       /\ dir.csv.rows[i].input_path # <<>>
            /\ \A e \in cur.log : e[1] = "upload failed" =>
                  e[2] \in images_dirs[ppt_key].files \cup gifs_dirs[ppt_key].files
    /\ (walk.state = "walking" /\ stage = "Failed" /\ LogHas("upload failed"))
         => <<"exception", "checkpoint_file">> \in cur.log

\* a presentation is marked although one of its uploads failed, and another
\* of its files is in the bucket
C5_Witness ==
    /\ walk.state = "walking"
    /\ stage = "Done"
    /\ marker[ppt_key]
    /\ LogHas("upload failed")
    /\ s3 # {}

\* C6: after the media loop of either extraction function, every entry
\* under ppt/media/ has either produced its output file and been counted as
\* extracted, or been counted as skipped: the two counters add up to the
\* number of entries under ppt/media/, extracted_count is the number of
\* entries that yield a file, each of them has its file in the output
\* folder, and no file of the folder comes from a skipped entry.
C6_ExtractedOrSkipped ==
    (call.fn \in {"img_ppt", "descpgen"} /\ call.res.raised = None /\ call.res.error = None)
        => LET namelist == call.arg.archive.namelist
               media    == media_indices(namelist)
               yielding == {i \in media : Produces(namelist[i])}
           IN  /\ call.res.extracted_count + call.res.skipped_count = Cardinality(media)
               /\ call.res.extracted_count = Cardinality(yielding)
               /\ \A i \in yielding :
                     \E f \in call.res.files : IsOutputOf(f, namelist[i])
               /\ \A f \in call.res.files :
                     \E i \in yielding : IsOutputOf(f, namelist[i])

\* a call that extracted one entry and skipped another
C6_Witness ==
    /\ call.fn = "descpgen"
    /\ call.res.extracted_count = 1
    /\ call.res.skipped_count = 1
    /\ Cardinality(call.res.files) = 1

\* the descriptors of rel_files that contribute mappings, and what they
\* reference
UsableRel(r) == r.xml = "ok" /\ slide_number_of(r.name) # None

RefersTo(r, media_path) ==
    /\ UsableRel(r)
    /\ \E x \in Range(r.rels) :
          /\ x.Type = "image"
          /\ x.Target # <<>>
          /\ MEDIA_PREFIX \o basename(x.Target) = media_path

\* C7: the slide-media map holds one slide number per referenced media
\* path: the number of the first descriptor, in the archive's enumeration
\* order, that references the path; a later descriptor never replaces it.
C7_FirstWriterWins ==
    (call.fn \in {"img_ppt", "descpgen"} /\ call.res.raised = None /\ call.res.error = None)
        => LET rel_files == rel_files_of(call.arg.archive.namelist)
               paths == {MEDIA_PREFIX \o basename(x.Target) :
                            x \in UNION {Range(rel_files[j].rels) : j \in 1..Len(rel_files)}}
               referenced == {k \in paths : \E j \in 1..Len(rel_files) :
                                               RefersTo(rel_files[j], k)}
               first(k) == CHOOSE j \in 1..Len(rel_files) :
                              /\ RefersTo(rel_files[j], k)
                              /\ \A h \in 1..(j - 1) : ~RefersTo(rel_files[h], k)
           IN  /\ DOMAIN call.res.map = referenced
               /\ \A k \in referenced :
                     call.res.map[k] = slide_number_of(rel_files[first(k)].name)

\* two descriptors of different slides reference one media path
C7_Witness ==
    /\ call.fn = "descpgen"
    /\ call.res.raised = None
    /\ LET rel_files == rel_files_of(call.arg.archive.namelist)
       IN  \E k \in DOMAIN call.res.map, i, j \in 1..Len(rel_files) :
              /\ i < j
              /\ RefersTo(rel_files[i], k)
              /\ RefersTo(rel_files[j], k)
              /\ slide_number_of(rel_files[i].name) # slide_number_of(rel_files[j].name)
              /\ call.res.map[k] = slide_number_of(rel_files[i].name)

\* C8 (as claimed): with Pillow installed, either extract_images_from_ppt
\* raises the format error for a path without the .pptx suffix and for a
\* file that is no zip container, and the not-found error for a path that
\* does not exist.
C8_FormatAndNotFoundErrors ==
    (call.fn \in {"img_ppt", "descpgen"} /\ PIL_INSTALLED)
        => LET src    == call.arg
               suffix == endswith(lower(src.path), PPTX_SUFFIX)
           IN  /\ ~suffix => call.res.raised = "ValueError"
               /\ (suffix /\ src.exists /\ ~src.archive.valid)
                     => call.res.raised = "ValueError"
               /\ (suffix /\ ~src.exists) => call.res.raised = "FileNotFoundError"

\* C9 (as claimed): the key make_s3_key returns holds no backslash and no
\* two consecutive forward slashes.
C9_KeyWithoutBackslashOrDoubleSlash ==
    call.fn = "make_s3_key"
        => /\ \A i \in 1..Len(call.res) : call.res[i] # "\\"
           /\ \A i \in 1..(Len(call.res) - 1) :
                 ~(call.res[i] = "/" /\ call.res[i + 1] = "/")

\* C10: when a still entry of the archive has a payload that cannot be
\* decoded, the description step counts it as skipped and writes no row for
\* it, writes one row for every entry that yields a file, and the call does
\* not fail because of it: with Pillow installed a call fails only when
\* writing the marker itself fails.
C10_CorruptEntrySkipped ==
    /\ (walk.state = "walking" /\ stage = "Organizing" /\ temp[ppt_key].csv.exists)
         => LET namelist == ppt_file.archive.namelist
                media    == media_indices(namelist)
                yielding == {i \in media : Produces(namelist[i])}
                corrupt  == {i \in media : /\ IsWhitelisted(namelist[i])
                                           /\ ~IsGifEntry(namelist[i])
                                           /\ namelist[i].payload = "corrupt"}
                rows     == temp[ppt_key].csv.rows
            IN  /\ cur.counts[1] = Cardinality(yielding)
                /\ cur.counts[2] = Cardinality(media \ yielding)
                /\ corrupt \subseteq media \ yielding
                /\ Len(rows) = Cardinality(yielding)
                /\ \A i \in yielding :
                      \E j \in 1..Len(rows) :
                         /\ IsOutputOf(rows[j].image_filename, namelist[i])
                         /\ rows[j].image_filename \in temp[ppt_key].files
                /\ \A i \in corrupt :
                      \A j \in 1..Len(rows) :
                         ~IsOutputOf(rows[j].image_filename, namelist[i])
    /\ (walk.state = "walking" /\ stage = "Failed" /\ PIL_INSTALLED)
         => <<"exception", "checkpoint_file">> \in cur.log

\* the presentation with the corrupt still is marked, one entry extracted
\* and one skipped
C10_Witness ==
    /\ walk.state = "walking"
    /\ stage = "Done"
    /\ marker[ppt_key]
    /\ ppt_file.archive = ArchiveCorrupt
    /\ cur.counts = <<1, 1>>
    /\ images_dirs[ppt_key].csv.exists
    /\ Len(images_dirs[ppt_key].csv.rows) = 1

\* the j-th smallest element of a set of indices
Nth(S, j) == CHOOSE i \in S : Cardinality({h \in S : h < i}) = j - 1

\* C11: descriptions.csv, when the description step has written it, has the
\* fixed header, one data row per extracted entry and none for a skipped
\* one, and its rows follow the archive's enumeration order of the media
\* entries: the j-th row is the row of the j-th entry that yields a file.
C11_OneRowPerExtractedInOrder ==
    (call.fn = "descpgen" /\ call.res.raised = None /\ call.res.error = None)
        => LET namelist == call.arg.archive.namelist
               yielding == {i \in media_indices(namelist) : Produces(namelist[i])}
               csv      == call.res.csv
           IN  /\ csv.exists
               /\ csv.fieldnames = CSV_HEADER
               /\ Len(csv.rows) = call.res.extracted_count
               /\ Len(csv.rows) = Cardinality(yielding)
               /\ \A j \in 1..Len(csv.rows) :
                     /\ DOMAIN csv.rows[j] = Range(CSV_HEADER)
                     /\ IsOutputOf(csv.rows[j].image_filename,
                                   namelist[Nth(yielding, j)])
                     /\ csv.rows[j].image_filename \in call.res.files
                     /\ csv.rows[j].ppt_name = basename(call.arg.path)

\* two entries with different outputs were extracted, the GIF first
C11_Witness ==
    /\ call.fn = "descpgen"
    /\ call.res.raised = None
    /\ call.res.csv.exists
    /\ Len(call.res.csv.rows) = 2
    /\ call.res.csv.rows[1].image_filename # call.res.csv.rows[2].image_filename
    /\ endswith(call.res.csv.rows[1].image_filename, GIF_EXT)

\* the rows of a tabular file at the indices of S, in increasing order,
\* each with the six fields a category file is written with
Widened(row) ==
    [f \in {"Page_of_PPT", "image_filename", "ppt_name", "description",
            "s3_url", "input_path"} |-> row_get(row, f)]

RowsAt(rows, S) == [j \in 1..Cardinality(S) |-> Widened(rows[Nth(S, j)])]

HasExt(name, exts) ==
    /\ Len(name) >= 2
    /\ name[Len(name) - 1] = "."
    /\ lower_char(name[Len(name)]) \in exts

\* C12: after the split step every data row of the patched tabular file is
\* in exactly one category file: the rows whose file name ends in .gif are
\* the rows of the gifs file, the rows whose file name has a still-image
\* extension are the rows of the images file, each in the order of the
\* original file, no row is in neither class, and the two row counts add
\* up to the row count of the original file.
C12_SplitPartitionsRows ==
    (/\ walk.state = "walking"
     /\ stage = "Organized"
     /\ temp[ppt_key].csv.exists
     /\ ~LogHas("cannot split"))
        => LET rows   == temp[ppt_key].csv.rows
               img    == images_dirs[ppt_key].csv.rows
               gif    == gifs_dirs[ppt_key].csv.rows
               gifs   == {i \in 1..Len(rows) : HasExt(rows[i].image_filename, {"gif"})}
               stills == {i \in 1..Len(rows) :
                            HasExt(rows[i].image_filename,
                                   {"png", "jpg", "jpeg", "bmp", "tiff"})}
           IN  /\ gifs \cap stills = {}
               /\ gifs \cup stills = 1..Len(rows)
               /\ img = RowsAt(rows, stills)
               /\ gif = RowsAt(rows, gifs)
               /\ Len(img) + Len(gif) = Len(rows)

\* the tabular file of three rows was split into two stills and one GIF
C12_Witness ==
    /\ walk.state = "walking"
    /\ stage = "Organized"
    /\ Len(temp[ppt_key].csv.rows) = 3
    /\ Len(images_dirs[ppt_key].csv.rows) = 2
    /\ Len(gifs_dirs[ppt_key].csv.rows) = 1

\* the slide number the relationship descriptors of namelist give to a
\* media path: the number of the first usable descriptor that references
\* it, None when there is none
SlideOf(namelist, media_path) ==
    LET rel_files == rel_files_of(namelist)
        refs == {j \in 1..Len(rel_files) : RefersTo(rel_files[j], media_path)}
    IN  IF refs = {} THEN None
        ELSE slide_number_of(rel_files[CHOOSE j \in refs : \A h \in refs : j <= h].name)

\* the output file name of a media entry that yields a file, given its
\* slide prefix
OutputName(e, slide_prefix) ==
    <<slide_prefix, e.name[Len(e.name) - 2], ".",
      IF IsGifEntry(e) THEN e.name[Len(e.name)] ELSE "png">>

\* C13: a whitelisted media entry that no relationship descriptor references
\* is extracted all the same, under the prefix slideUNK_ and, in the
\* description step, with UNK as the slide number of its row; a referenced
\* entry gets the prefix slide<N>_ and the slide number N of its mapping.
C13_UnknownSlidePrefix ==
    (call.fn \in {"img_ppt", "descpgen"} /\ call.res.raised = None /\ call.res.error = None)
        => LET namelist == call.arg.archive.namelist
               yielding == {i \in media_indices(namelist) : Produces(namelist[i])}
               N(i)     == SlideOf(namelist, namelist[i].name)
               name(i)  == OutputName(namelist[i],
                                      IF N(i) = None THEN "slideUNK_"
                                      ELSE "slide" \o N(i) \o "_")
           IN  /\ \A i \in yielding : name(i) \in call.res.files
               /\ call.fn = "descpgen" =>
                     \A j \in 1..Len(call.res.csv.rows) :
                        LET i == Nth(yielding, j)
                        IN  /\ call.res.csv.rows[j].image_filename = name(i)
                            /\ call.res.csv.rows[j].Page_of_PPT
                                  = IF N(i) = None THEN <<"UNK">> ELSE <<N(i)>>

\* one extracted entry is referenced by slide 2 and another by no slide
C13_Witness ==
    /\ call.fn = "descpgen"
    /\ call.res.raised = None
    /\ call.res.csv.exists
    /\ \E i, j \in 1..Len(call.res.csv.rows) :
          /\ call.res.csv.rows[i].Page_of_PPT = <<"UNK">>
          /\ call.res.csv.rows[i].image_filename[1] = "slideUNK_"
          /\ call.res.csv.rows[j].Page_of_PPT = <<"2">>
          /\ call.res.csv.rows[j].image_filename[1] = "slide2_"

Malformed(namelist) ==
    {j \in 1..Len(namelist) :
        /\ startswith(namelist[j].name, RELS_PREFIX)
        /\ endswith(namelist[j].name, RELS_SUFFIX)
        /\ namelist[j].xml = "malformed"}

\* C14: a relationship descriptor whose XML does not parse is not fatal: the
\* call returns normally, the descriptor contributes no mapping, every
\* media path has the slide number the other descriptors give it, and the
\* media loop has visited every entry under ppt/media/.
C14_MalformedDescriptorSkipped ==
    (/\ call.fn \in {"img_ppt", "descpgen"}
     /\ PIL_INSTALLED
     /\ endswith(lower(call.arg.path), PPTX_SUFFIX)
     /\ call.arg.exists
     /\ call.arg.archive.valid
     /\ Malformed(call.arg.archive.namelist) # {})
        => LET namelist == call.arg.archive.namelist
               others   == SelectSeq(namelist, LAMBDA e : e.xml # "malformed")
               media    == media_indices(namelist)
           IN  /\ call.res.raised = None
               /\ call.res.error = None
               /\ \A i \in 1..Len(namelist) :
                     map_get(call.res.map, namelist[i].name)
                         = SlideOf(others, namelist[i].name)
               /\ \A k \in DOMAIN call.res.map : SlideOf(others, k) = call.res.map[k]
               /\ call.res.extracted_count + call.res.skipped_count = Cardinality(media)
               /\ \A i \in media :
                     Produces(namelist[i]) =>
                        \E f \in call.res.files : IsOutputOf(f, namelist[i])

\* a malformed descriptor comes before a sound one whose mapping is used
C14_Witness ==
    /\ call.fn = "img_ppt"
    /\ call.res.raised = None
    /\ LET namelist == call.arg.archive.namelist
       IN  \E j \in Malformed(namelist), h \in 1..Len(namelist) :
              /\ j < h
              /\ UsableRel(namelist[h])
              /\ \E k \in DOMAIN call.res.map :
                    /\ RefersTo(namelist[j], k) = FALSE
                    /\ RefersTo(namelist[h], k)
    /\ call.res.extracted_count > 0
    /\ \E f \in call.res.files : f[1] # "slideUNK_"

\* the stage changes of one call of process_ppt; "Organized" is the point
\* between the return of organize_files and the write of the marker
StageOrder ==
    { <<"Pending", "Extracting">>,
      <<"Extracting", "Describing">>, <<"Extracting", "Failed">>,
      <<"Describing", "Organizing">>, <<"Describing", "Failed">>,
      <<"Organizing", "Organized">>, <<"Organizing", "Failed">>,
      <<"Organized", "Done">>, <<"Organized", "Failed">>,
      <<"Done", "Pending">>, <<"Failed", "Pending">> }

\* a step that enters process_ppt
EntersPpt == walk.state = "walking" /\ stage = "Pending" /\ cur' # cur

\* a step of one run of process_directory changes the stage only along
\* StageOrder, writes a marker only between Organized and Done, and moves
\* to the next presentation only from Done or Failed (or on a skip); a call
\* of process_ppt is entered only when no other call is in progress
Sequential ==
    /\ stage' # stage => <<stage, stage'>> \in StageOrder
    /\ marker' # marker => stage = "Organized" /\ stage' = "Done"
    /\ (walk'.i # walk.i /\ run' = run)
          => /\ stage \in {"Done", "Failed", "Pending"}
             /\ stage' = "Pending"
             /\ walk'.i = walk.i + 1
    /\ EntersPpt => cur.result \in {"none", "Skipped", "Done", "Failed"}

\* C15 (as claimed): the stages of a presentation follow each other in the
\* order Extracting, Describing, Organizing, Done, and the next
\* presentation is started only after the previous one has reached Done or
\* Failed and its scratch directory has been removed.
C15_SequentialAndCleaned ==
    [][/\ Sequential
       /\ (EntersPpt /\ cur.result \in {"Done", "Failed"})
             => ~temp[cur.key].exists]_vars

\* the components of a path between its separators
RECURSIVE SplitOn(_, _)
SplitOn(p, seps) ==
    LET at == {i \in 1..Len(p) : p[i] \in seps}
    IN  IF at = {} THEN <<p>>
        ELSE LET i == CHOOSE x \in at : \A y \in at : x <= y
             IN  <<SubSeq(p, 1, i - 1)>> \o SplitOn(SubSeq(p, i + 1, Len(p)), seps)

\* each component followed by a forward slash
RECURSIVE JoinSlash(_)
JoinSlash(parts) ==
    IF parts = <<>> THEN <<>>
    ELSE Head(parts) \o <<"/">> \o JoinSlash(Tail(parts))

\* PPT/<directory components>/<base name>/<media_type>/<file name>
KeyOfForm(ppt_relative_path, filename, media_type) ==
    LET parts == SplitOn(ppt_relative_path, {"/", "\\"})
        dirs  == SelectSeq(SubSeq(parts, 1, Len(parts) - 1), LAMBDA c : c # <<>>)
        base  == splitext(parts[Len(parts)])[1]
    IN  <<"PPT", "/">> \o JoinSlash(dirs) \o base \o <<"/", media_type, "/">>
            \o basename(filename)

\* C16 (as claimed): for every input the key make_s3_key returns is PPT/,
\* the directory components of the relative path, the base name of the
\* presentation, the media type and the base name of the file name, joined
\* by single forward slashes (no directory part when the path has none),
\* and the logical path of the row is the key without its leading PPT/.
C16_KeyForm ==
    call.fn = "make_s3_key"
        => /\ call.res = KeyOfForm(call.arg.ppt_relative_path, call.arg.filename,
                                   call.arg.media_type)
           /\ replace_first(call.res, <<"PPT", "/">>) = SubSeq(call.res, 3, Len(call.res))

\* organize_files has returned before its import step
ImportSkipped == LogHas("no temp dir") \/ LogHas("no csv") \/ LogHas("cannot split")

\* C17: a collection changes only while a presentation is organized, and
\* then by one insert of the rows of its own category file: the images
\* collection gets the rows of the images file, the gifs collection the
\* rows of the gifs file, each at most once per call of process_ppt; an
\* insert that fails is logged and leaves the collection as it was, with no
\* second attempt in the call.
C17_InsertsByCategory ==
    [][/\ images_col' # images_col
             => /\ InPpt("Organizing")
                /\ images_col'.docs = images_col.docs \o images_dirs'[ppt_key].csv.rows
                /\ <<"insert failed", "images">> \notin cur'.log
       /\ gifs_col' # gifs_col
             => /\ InPpt("Organizing")
                /\ gifs_col'.docs = gifs_col.docs \o gifs_dirs'[ppt_key].csv.rows
                /\ <<"insert failed", "gifs">> \notin cur'.log
       /\ \A i \in 1..Len(images_col'.docs) :
             HasExt(images_col'.docs[i].image_filename,
                    {"png", "jpg", "jpeg", "bmp", "tiff"})
       /\ \A i \in 1..Len(gifs_col'.docs) :
             HasExt(gifs_col'.docs[i].image_filename, {"gif"})
       /\ (InPpt("Organizing") /\ ~ImportSkipped')
             => /\ (images_col.available /\ images_dirs'[ppt_key].csv.rows # <<>>)
                      => \/ images_col' # images_col
                         \/ <<"insert failed", "images">> \in cur'.log
                /\ (gifs_col.available /\ gifs_dirs'[ppt_key].csv.rows # <<>>)
                      => \/ gifs_col' # gifs_col
                         \/ <<"insert failed", "gifs">> \in cur'.log]_vars

\* the insert of the gifs file failed and was logged, the rows of the
\* images file are in the images collection
C17_Witness ==
    /\ walk.state = "walking"
    /\ stage = "Organized"
    /\ <<"insert failed", "gifs">> \in cur.log
    /\ gifs_dirs[ppt_key].csv.rows # <<>>
    /\ gifs_col.docs = <<>>
    /\ images_col.docs = images_dirs[ppt_key].csv.rows
    /\ Len(images_col.docs) = 2

\* the first response of the API is empty or invalid
FirstResponseUnusable == call.arg.resps[1] \in {"empty", "noformat"}

C19_ImageHandlesReleased ==
    call.fn = "generate_description_gemini"
        => call.res.handles.closed = call.res.handles.opened

WidenedSchema ==
    <<"Page_of_PPT", "image_filename", "ppt_name", "description", "s3_url",
      "input_path">>

HasWidenedSchema(csv) ==
    /\ csv.fieldnames = WidenedSchema
    /\ \A i \in 1..Len(csv.rows) : DOMAIN csv.rows[i] = Range(WidenedSchema)

\* C20: every category tabular file organize_files has written has the
\* header Page_of_PPT, image_filename, ppt_name, description, s3_url,
\* input_path and rows of exactly these fields, also when no upload of the
\* presentation succeeded and the original file was never patched; every
\* document of either collection has exactly these six fields.
C20_WidenedSchema ==
    /\ \A k \in OutKeys :
          /\ images_dirs[k].csv.exists => HasWidenedSchema(images_dirs[k].csv)
          /\ gifs_dirs[k].csv.exists => HasWidenedSchema(gifs_dirs[k].csv)
    /\ \A i \in 1..Len(images_col.docs) :
          DOMAIN images_col.docs[i] = Range(WidenedSchema)
    /\ \A i \in 1..Len(gifs_col.docs) :
          DOMAIN gifs_col.docs[i] = Range(WidenedSchema)
    /\ (walk.state = "walking" /\ stage = "Organized" /\ ~ImportSkipped)
          => /\ images_dirs[ppt_key].csv.exists
             /\ gifs_dirs[ppt_key].csv.exists

\* no upload of the presentation succeeded, the original file still has
\* its four columns, and its row was inserted with six fields
C20_Witness ==
    /\ walk.state = "walking"
    /\ stage = "Organized"
    /\ LogHas("upload failed")
    /\ s3 = {}
    /\ temp[ppt_key].csv.fieldnames = CSV_HEADER
    /\ images_dirs[ppt_key].csv.rows # <<>>
    /\ images_col.docs = images_dirs[ppt_key].csv.rows
    /\ images_col.docs[1].s3_url = <<>>

\* the column that holds the file name of a row, None when there is none
FilenameColumn(header) ==
    IF "image_filename" \in Range(header) THEN "image_filename"
    ELSE IF "filename" \in Range(header) THEN "filename"
    ELSE None

\* C21: update_csv_with_s3_url sets s3_url and input_path of every row
\* whose file name is the uploaded file's name to the given URL and logical
\* path, and changes nothing else: the number and order of the rows, every
\* other column of a patched row and every column of every other row are
\* as before (a URL column the file did not have yet is empty in the rows
\* that are not patched).
C21_PatchChangesOnlyUrlFields ==
    (call.fn = "update_csv_with_s3_url" /\ FilenameColumn(call.arg.csv.fieldnames) # None)
        => LET old == call.arg.csv
               new == call.res
               col == FilenameColumn(old.fieldnames)
           IN  /\ new.exists
               /\ Len(new.rows) = Len(old.rows)
               /\ SubSeq(new.fieldnames, 1, Len(old.fieldnames)) = old.fieldnames
               /\ Range(new.fieldnames) = Range(old.fieldnames) \cup {"s3_url", "input_path"}
               /\ \A i \in 1..Len(old.rows) :
                     /\ DOMAIN new.rows[i] = Range(new.fieldnames)
                     /\ \A f \in Range(old.fieldnames) \ {"s3_url", "input_path"} :
                           new.rows[i][f] = old.rows[i][f]
                     /\ IF old.rows[i][col] = call.arg.filename
                        THEN /\ new.rows[i].s3_url = call.arg.s3_url
                             /\ new.rows[i].input_path = call.arg.input_path
                        ELSE /\ new.rows[i].s3_url = row_get(old.rows[i], "s3_url")
                             /\ new.rows[i].input_path = row_get(old.rows[i], "input_path")

\* a file of two rows, the second of which was patched: the first row
\* keeps the URL of an earlier patch
C21_Witness ==
    /\ call.fn = "update_csv_with_s3_url"
    /\ call.arg.csv.fieldnames = CSV_HEADER \o <<"s3_url", "input_path">>
    /\ Len(call.res.rows) = 2
    /\ call.arg.csv.rows[2].image_filename = call.arg.filename
    /\ call.arg.csv.rows[1].image_filename # call.arg.filename
    /\ call.res.rows[2].s3_url = call.arg.s3_url
    /\ call.res.rows[2].input_path # <<>>
    /\ call.res.rows[1].s3_url = <<"https://old">>

\* C22: when process_ppt enters extraction, the scratch directory of the
\* presentation exists and holds no file and no tabular file, whatever an
\* earlier attempt left in a directory of that name.
C22_ScratchFreshAtExtraction ==
    InPpt("Extracting")
        => /\ ~marker[ppt_key]
           /\ temp[ppt_key] = [exists |-> TRUE, files |-> {}, csv |-> NoFile]

\* extraction is entered for a presentation whose earlier attempt left a
\* scratch directory with its tabular file of descriptions in it
C22_Witness ==
    /\ InPpt("Extracting")
    /\ cur.stale.exists
    /\ cur.stale.csv.exists
    /\ cur.stale.csv.rows # <<>>
    /\ ~temp[ppt_key].csv.exists

C24_BoundaryFailureKeepsRow ==
    (call.fn = "descpgen" /\ call.res.raised = None /\ call.res.error = None)
        => LET namelist == call.arg.archive.namelist
               media    == media_indices(namelist)
               yielding == {i \in media : Produces(namelist[i])}
               rows     == call.res.csv.rows
           IN  /\ call.res.extracted_count = Cardinality(yielding)
               /\ call.res.skipped_count = Cardinality(media \ yielding)
               /\ Len(rows) = Cardinality(yielding)
               /\ \A j \in 1..Len(rows) :
                     LET i == Nth(yielding, j)
                     IN  /\ IsOutputOf(rows[j].image_filename, namelist[i])
                         /\ rows[j].image_filename \in call.res.files
                         /\ rows[j].description # NoText
                         /\ IF call.api[i] = GoodBoundary
                            THEN rows[j].description = DESCRIPTION
                            ELSE rows[j].description # DESCRIPTION

\* the request fails for the first of two extracted entries and succeeds
\* for the second
C24_Witness ==
    /\ call.fn = "descpgen"
    /\ call.res.raised = None
    /\ call.res.extracted_count = 2
    /\ call.res.skipped_count = 0
    /\ Len(call.res.csv.rows) = 2
    /\ call.res.csv.rows[1].description \notin {NoText, DESCRIPTION}
    /\ call.res.csv.rows[2].description = DESCRIPTION

\* C25 (as claimed): after an extraction the number of files in the output
\* folder is extracted_count, and in the description step no two rows of the
\* tabular file carry the same image_filename.
C25_DistinctOutputNames ==
    (call.fn \in {"img_ppt", "descpgen"} /\ call.res.raised = None /\ call.res.error = None)
        => /\ Cardinality(call.res.files) = call.res.extracted_count
           /\ call.fn = "descpgen" =>
                 \A j, k \in 1..Len(call.res.csv.rows) :
                    j # k => call.res.csv.rows[j].image_filename
                                # call.res.csv.rows[k].image_filename

\* C26 (as claimed): in every state, after any number of runs, neither
\* collection holds two documents of the same presentation with the same
\* image file name (the presentations of a tree have different names, so
\* ppt_name tells them apart).
C26_OneDocumentPerImage ==
    \A col \in {images_col, gifs_col} :
        \A j, k \in 1..Len(col.docs) :
            j # k => ~(/\ col.docs[j].ppt_name = col.docs[k].ppt_name
                       /\ col.docs[j].image_filename = col.docs[k].image_filename)

\* C27 (as claimed): the presentation files a run discovers have pairwise
\* different checkpoint markers, scratch directories and output
\* directories (all three are named by the directory and the base name of
\* the file), and a call of process_ppt returns as skipped only in a run
\* after the first.
C27_NoSharedMarker ==
    /\ \A i, j \in 1..Len(walk.pptx_files) :
          i # j => out_key(walk.pptx_files[i].rel) # out_key(walk.pptx_files[j].rel)
    /\ cur.result = "Skipped" => run >= 2

====
